---- MODULE Spec2Model ----
(***************************************************************************)
(* Credential / token acquisition of the TeamsFx SDK.                      *)
(*                                                                         *)
(*   Spec        OnBehalfOfUserCredential (constructor, getToken,          *)
(*               generateAuthServerError) against an identity provider     *)
(*               that may answer anything msal-node's                      *)
(*               acquireTokenOnBehalfOf can answer.                        *)
(*   SpecBroker  TeamsUserCredential (the browser's token broker): token   *)
(*               cache, near-expiry test, login and getToken against the   *)
(*               remote authentication endpoint.                           *)
(*   SpecParser  parseToken of the SQL plugin and the SDK's user           *)
(*               information, applied to decoded access tokens.            *)
(*   SpecRun     runWithErrorCatchAndThrow of the function plugin, applied *)
(*               to callbacks that return, resolve, throw or reject.       *)
(*                                                                         *)
(* Strings that the code inspects (scopes, provider messages) are          *)
(* sequences: a scope string is a sequence of one-character strings, a     *)
(* message is a sequence of words.  Times are integers: Date.now() is in   *)
(* milliseconds, a JWT exp claim is in seconds.                            *)
(***************************************************************************)
EXTENDS Integers, Sequences, FiniteSets, TLC

VARIABLES
    now,        \* Date.now(), milliseconds
    config,     \* config.authentication of core/configurationProvider
    cred,       \* the OnBehalfOfUserCredential: construction outcome and ssoToken
    calls,      \* the getToken invocations, by call id
    provider,   \* number of acquireTokenOnBehalfOf requests sent so far
    cache,      \* TeamsUserCredential's token cache, by key
    bcalls,     \* the TeamsUserCredential.getToken invocations, by call id
    remote,     \* number of requests sent to the authentication endpoint so far
    accessToken, \* the token handed to the parsers
    tokenInfo,  \* what parseToken made of it
    userInfo,   \* what getUserInfoFromSsoToken made of it
    run,        \* a runWithErrorCatchAndThrow invocation
    runningTasks, \* handlers.ts: the names of the tasks that hold the lock
    tasks,      \* the runCommand / runUserTask invocations, by task id
    core,       \* handlers.ts: whether the core module has been set
    env,        \* CoreImpl.env, the active environment
    configs,    \* CoreImpl.configs, environment name -> solution config
    envCall,    \* the last environment operation and its result
    proxy,      \* a CoreProxy.runWithErrorHandling invocation
    bot         \* the bot plugin: its config, a lifecycle call, an endpoint update

oboVars == <<config, cred, calls, provider>>

brokerVars == <<cache, bcalls, remote>>

parserVars == <<accessToken, tokenInfo, userInfo>>

runVars == <<run>>

taskVars == <<runningTasks, tasks, core>>

envVars == <<env, configs, envCall>>

proxyVars == <<proxy>>

botVars == <<bot>>

toolVars == <<taskVars, envVars, proxyVars, botVars>>

vars == <<now, oboVars, brokerVars, parserVars, runVars, toolVars>>

----------------------------------------------------------------------------
(* Bounds *)

\* Number of getToken invocations followed.
MaxCalls == 2

\* The clock advances TickMs at a time, MaxTicks times.
TickMs == 750

MaxTicks == 3

\* Lifetime the identity provider gives an access token, in seconds.
ProviderLifetimeSec == 3600

(* Program constants *)

\* Math.floor(Date.now() / 1000)
MsPerSec == 1000

----------------------------------------------------------------------------
(* Values *)

None == <<>>

Some(x) == <<x>>

CallIds == 1..MaxCalls

\* An error thrown by the SDK: ErrorWithCode(message, code); or a bare
\* JavaScript exception (kind "TypeError").
ErrorWithCode(message, code) == [kind |-> "ErrorWithCode", code |-> code, message |-> message]

BareTypeError == [kind |-> "TypeError", code |-> "", message |-> <<>>]

ErrorCodes == {"InvalidConfiguration", "InvalidParameter", "TokenExpiredError",
               "UiRequiredError", "InternalError", "ServiceError"}

\* formatString(ErrorMessage.X, args...): the template's name followed by the
\* words of its arguments.
formatString(template, args) == <<template>> \o args

----------------------------------------------------------------------------
(* Environment: configuration, SSO tokens, the clock *)

\* The four values the constructor requires, in the order it tests them.
ConfigFields == <<"clientId", "authorityHost", "clientSecret", "tenantId">>

\* A configuration value: not set, set to the empty string, or set.
ConfigValues == {"undefined", "", "set"}

Configs == [{ConfigFields[i] : i \in 1..Len(ConfigFields)} -> ConfigValues]

\* JavaScript's !x for a string or undefined.
Not(x) == x \in {"undefined", ""}

\* exp claim of the well-formed SSO token, in seconds.
SsoExpSec == 1

\* The strings handed to the constructor: a well-formed JWT and a string that
\* is no JWT.
SsoTokenStrings == {"T1", "invalid-sso-token"}

\* jwt-decode of the middle segment: the claims, or nothing.
jwtDecode(token) ==
    IF token = "T1" THEN Some([exp |-> SsoExpSec]) ELSE None

\* parseJwt of util/utils: the decoded claims, or an InternalError.
parseJwt(token) ==
    IF jwtDecode(token) = None
    THEN [ok |-> FALSE, exp |-> 0,
          error |-> ErrorWithCode(<<"Parse jwt token failed">>, "InternalError")]
    ELSE [ok |-> TRUE, exp |-> jwtDecode(token)[1].exp,
          error |-> ErrorWithCode(<<>>, "")]

\* Times Date.now() can show.
Times == {k * TickMs : k \in 0..MaxTicks}

----------------------------------------------------------------------------
(* Scopes *)

EmptyStr == <<>>

\* The scopes arguments tried: strings, arrays of strings, and a value that is
\* neither.
ScopesInputs ==
    { [type |-> "string", val |-> EmptyStr],
      [type |-> "string", val |-> <<" ">>],
      [type |-> "string", val |-> <<"a", " ", "b">>],
      [type |-> "array",  val |-> <<>>],
      [type |-> "array",  val |-> <<EmptyStr>>],
      [type |-> "array",  val |-> << <<" ">> >>],
      [type |-> "other",  val |-> <<>>] }

\* validateScopesType of util/utils: a string or an array of strings passes.
validateScopesType(scopes) == scopes.type \in {"string", "array"}

\* String.prototype.split(" ")
RECURSIVE split(_)
split(s) ==
    IF s = <<>> THEN <<EmptyStr>>
    ELSE IF Head(s) = " " THEN <<EmptyStr>> \o split(Tail(s))
    ELSE LET r == split(Tail(s)) IN << <<Head(s)>> \o Head(r) >> \o Tail(r)

\* Array.prototype.join(" ")
RECURSIVE join(_)
join(a) ==
    IF a = <<>> THEN EmptyStr
    ELSE IF Len(a) = 1 THEN a[1]
    ELSE a[1] \o <<" ">> \o join(Tail(a))

\* scopesArray of getToken: split a string on " ", then drop the empty entries.
scopesArray(scopes) ==
    SelectSeq(IF scopes.type = "string" THEN split(scopes.val) ELSE scopes.val,
              LAMBDA x : x # EmptyStr)

----------------------------------------------------------------------------
(* The identity provider: msalClient.acquireTokenOnBehalfOf *)

\* A JavaScript Date, by its epoch milliseconds.
Date(ms) == [epochMs |-> ms]

\* Date.prototype.getTime()
getTime(d) == d.epochMs

\* Messages an msal error can carry: none (undefined), the assertion-expired
\* message of AAD, a message about something else.
ProviderMessages ==
    { None,
      Some(<<"AADSTS500133:", "Assertion", "is", "not", "within", "its", "valid", "time", "range.">>),
      Some(<<"AADSTS50000:", "There", "was", "an", "error", "issuing", "a", "token.">>) }

ProviderErrorNames == {"InteractionRequiredAuthError", "ServerError"}

NoOutcome == [kind |-> "none", accessToken |-> "", expiresOn |-> None,
              name |-> "", errorMessage |-> None]

\* What awaiting acquireTokenOnBehalfOf can end in at time t: an
\* AuthenticationResult (whose expiresOn is a Date or null), null, or a thrown
\* error.
ProviderOutcomes(t) ==
    { [NoOutcome EXCEPT !.kind = "result", !.accessToken = a, !.expiresOn = e] :
        a \in {"A1", "A2"},
        e \in {Some(Date(((t \div MsPerSec) + ProviderLifetimeSec) * MsPerSec))} }
    \cup { [NoOutcome EXCEPT !.kind = "result", !.accessToken = "A1"] }
    \cup { [NoOutcome EXCEPT !.kind = "null"] }
    \cup { [NoOutcome EXCEPT !.kind = "throw", !.name = n, !.errorMessage = m] :
            n \in ProviderErrorNames, m \in ProviderMessages }

\* errorMessage.indexOf(word) >= 0, for a message of words.
Contains(message, word) == \E i \in 1..Len(message) : message[i] = word

\* "undefined" when a message that is not there is concatenated or formatted.
Text(m) == IF m = None THEN <<"undefined">> ELSE m[1]

----------------------------------------------------------------------------
(* OnBehalfOfUserCredential *)

AccessToken(token, expiresOnTimestamp) ==
    [token |-> token, expiresOnTimestamp |-> expiresOnTimestamp]

NoError == [kind |-> "none", code |-> "", message |-> <<>>]

\* The credential: how construction ended, the constructor's argument, whether
\* parseJwt was reached, and this.ssoToken.
NoCred == [state |-> "none", arg |-> "", ssoToken |-> None, error |-> NoError,
           parsed |-> FALSE]

\* missingConfigurations with the tenantId test left out.
missingConfigurations_noTenantId(cfg) ==
    SelectSeq(SubSeq(ConfigFields, 1, 3), LAMBDA f : Not(cfg[f]))

\* missingConfigurations of the constructor: the names of the required values
\* that are not set, in the order tested.
missingConfigurations(cfg) == SelectSeq(ConfigFields, LAMBDA f : Not(cfg[f]))

\* new OnBehalfOfUserCredential(ssoToken): the credential, or the error thrown.
constructor(cfg, ssoToken) ==
    IF Len(missingConfigurations(cfg)) # 0
    THEN [NoCred EXCEPT
            !.state = "failed", !.arg = ssoToken,
            !.error = ErrorWithCode(
                formatString("InvalidConfiguration",
                             missingConfigurations(cfg) \o <<"undefined">>),
                "InvalidConfiguration")]
    ELSE LET decodedSsoToken == parseJwt(ssoToken) IN
         IF ~decodedSsoToken.ok
         THEN [NoCred EXCEPT !.state = "failed", !.arg = ssoToken, !.parsed = TRUE,
                             !.error = decodedSsoToken.error]
         ELSE [NoCred EXCEPT !.state = "constructed", !.arg = ssoToken, !.parsed = TRUE,
                             !.ssoToken = Some(AccessToken(ssoToken, decodedSsoToken.exp))]

\* The expiry test with >= for >.
ssoTokenExpired_atExpiry(t, sso) == (t \div MsPerSec) >= sso.expiresOnTimestamp

\* The expiry test taking expiresOnTimestamp for milliseconds.
ssoTokenExpired_asMs(t, sso) == (t \div MsPerSec) > sso.expiresOnTimestamp * MsPerSec

\* Math.floor(Date.now() / 1000) > this.ssoToken.expiresOnTimestamp
ssoTokenExpired(t, sso) == (t \div MsPerSec) > sso.expiresOnTimestamp

\* generateAuthServerError testing the message before the error's name.
generateAuthServerError_messageFirst(err) ==
    IF err.errorMessage # None /\ Contains(err.errorMessage[1], "AADSTS500133:")
    THEN ErrorWithCode(
            <<"Failed to get access token from AAD server, sso token expired:">>
                \o Text(err.errorMessage),
            "TokenExpiredError")
    ELSE IF err.name = "InteractionRequiredAuthError"
    THEN ErrorWithCode(
            <<"Failed to get access token from AAD server, interaction required:">>
                \o Text(err.errorMessage),
            "UiRequiredError")
    ELSE ErrorWithCode(
            formatString("FailToAcquireTokenOnBehalfOfUser", Text(err.errorMessage)),
            "ServiceError")

\* generateAuthServerError(err): the ErrorWithCode for a provider error.
generateAuthServerError(err) ==
    IF err.name = "InteractionRequiredAuthError"
    THEN ErrorWithCode(
            <<"Failed to get access token from AAD server, interaction required:">>
                \o Text(err.errorMessage),
            "UiRequiredError")
    ELSE IF err.errorMessage # None /\ Contains(err.errorMessage[1], "AADSTS500133:")
    THEN ErrorWithCode(
            <<"Failed to get access token from AAD server, sso token expired:">>
                \o Text(err.errorMessage),
            "TokenExpiredError")
    ELSE ErrorWithCode(
            formatString("FailToAcquireTokenOnBehalfOfUser", Text(err.errorMessage)),
            "ServiceError")

\* The outcome of a getToken invocation.
Returned(call, token) == [call EXCEPT !.st = "returned", !.result = Some(token)]

Thrown(call, error) == [call EXCEPT !.st = "thrown", !.error = error]

NoRequest == [oboAssertion |-> "", scopes |-> <<>>]

\* A getToken invocation that has not been made yet.
IdleCall == [st |-> "idle", scopes |-> [type |-> "other", val |-> <<>>],
             at |-> 0, requests |-> 0, request |-> NoRequest,
             response |-> NoOutcome, result |-> None, error |-> NoError]

\* getToken that joins an exchange already outstanding for the same scopes
\* instead of sending its own.
getTokenStart_shareInFlight(call, scopes, t, sso) ==
    LET c == [call EXCEPT !.scopes = scopes, !.at = t] IN
    IF ~validateScopesType(scopes)
    THEN Thrown(c, ErrorWithCode(<<"The type of scopes is not valid">>, "InvalidParameter"))
    ELSE IF Len(scopesArray(scopes)) = 0
    THEN IF ssoTokenExpired(t, sso)
         THEN Thrown(c, ErrorWithCode(<<"Sso token has already expired.">>, "TokenExpiredError"))
         ELSE Returned(c, sso)
    ELSE IF \E d \in CallIds : /\ calls[d].st = "awaiting"
                               /\ calls[d].request.scopes = scopesArray(scopes)
    THEN [c EXCEPT !.st = "awaiting",
                   !.request = [oboAssertion |-> sso.token, scopes |-> scopesArray(scopes)]]
    ELSE [c EXCEPT !.st = "awaiting", !.requests = @ + 1,
                   !.request = [oboAssertion |-> sso.token, scopes |-> scopesArray(scopes)]]

\* getToken that sends the exchange without the SSO token as assertion.
getTokenStart_noAssertion(call, scopes, t, sso) ==
    LET c == [call EXCEPT !.scopes = scopes, !.at = t] IN
    IF ~validateScopesType(scopes)
    THEN Thrown(c, ErrorWithCode(<<"The type of scopes is not valid">>, "InvalidParameter"))
    ELSE IF Len(scopesArray(scopes)) = 0
    THEN IF ssoTokenExpired(t, sso)
         THEN Thrown(c, ErrorWithCode(<<"Sso token has already expired.">>, "TokenExpiredError"))
         ELSE Returned(c, sso)
    ELSE [c EXCEPT !.st = "awaiting", !.requests = @ + 1,
                   !.request = [oboAssertion |-> "", scopes |-> scopesArray(scopes)]]

\* getToken up to its await: the arguments are validated and normalised; with
\* no scopes left the SSO token is returned unless it has expired; otherwise
\* the exchange is sent to the identity provider.
getTokenStart(call, scopes, t, sso) ==
    LET c == [call EXCEPT !.scopes = scopes, !.at = t] IN
    IF ~validateScopesType(scopes)
    THEN Thrown(c, ErrorWithCode(<<"The type of scopes is not valid">>, "InvalidParameter"))
    ELSE IF Len(scopesArray(scopes)) = 0
    THEN IF ssoTokenExpired(t, sso)
         THEN Thrown(c, ErrorWithCode(<<"Sso token has already expired.">>, "TokenExpiredError"))
         ELSE Returned(c, sso)
    ELSE [c EXCEPT !.st = "awaiting", !.requests = @ + 1,
                   !.request = [oboAssertion |-> sso.token, scopes |-> scopesArray(scopes)]]

\* getToken after its await without the test for a null result: reading
\* accessToken of null is a TypeError.
getTokenResume_noNullTest(call, outcome) ==
    LET c == [call EXCEPT !.response = outcome] IN
    IF outcome.kind = "throw"
    THEN Thrown(c, generateAuthServerError(outcome))
    ELSE IF outcome.kind = "null" \/ outcome.expiresOn = None
    THEN Thrown(c, BareTypeError)
    ELSE Returned(c, AccessToken(outcome.accessToken, getTime(outcome.expiresOn[1])))

\* getToken that sends the exchange once more when the first one failed.
getTokenResume_retryOnce(call, outcome) ==
    LET c == [call EXCEPT !.response = outcome] IN
    IF outcome.kind \in {"throw", "null"} /\ call.requests = 1
    THEN [c EXCEPT !.requests = @ + 1]
    ELSE IF outcome.kind = "throw"
    THEN Thrown(c, generateAuthServerError(outcome))
    ELSE IF outcome.kind = "null"
    THEN Thrown(c, ErrorWithCode(
            formatString("FailToAcquireTokenOnBehalfOfUser", <<"Access token is null">>),
            "InternalError"))
    ELSE IF outcome.expiresOn = None
    THEN Thrown(c, BareTypeError)
    ELSE Returned(c, AccessToken(outcome.accessToken, getTime(outcome.expiresOn[1])))

\* getToken after its await, given what acquireTokenOnBehalfOf ended in.
getTokenResume(call, outcome) ==
    LET c == [call EXCEPT !.response = outcome] IN
    IF outcome.kind = "throw"
    THEN Thrown(c, generateAuthServerError(outcome))
    ELSE IF outcome.kind = "null"
    THEN Thrown(c, ErrorWithCode(
            formatString("FailToAcquireTokenOnBehalfOfUser", <<"Access token is null">>),
            "InternalError"))
    ELSE IF outcome.expiresOn = None
    THEN Thrown(c, BareTypeError)
    ELSE Returned(c, AccessToken(outcome.accessToken, getTime(outcome.expiresOn[1])))

----------------------------------------------------------------------------
(* Token parsing: parseToken of the SQL plugin, user information of the SDK *)

\* A claim a token does not carry reads as undefined.
Undefined == "undefined"

\* The payloads of the tokens tried: the claims the parsers read.
JwtClaims ==
    [ ver : {Undefined, "1.0", "2.0", "3.0"},
      appidacr : {Undefined, "0", "1"},
      azpacr : {Undefined, "0", "1"},
      name : {"fake-name", "other-name"},
      oid : {"fake-oid"},
      appid : {"fake-appid"},
      upn : {Undefined, "fake-upn"},
      preferred_username : {Undefined, "fake-preferred_username"} ]

\* A compact token with its payload segment, and a string that is no token.
Jwt(claims) == [segments |-> 3, payload |-> Some(claims)]

NotAJwt == [segments |-> 1, payload |-> None]

AccessTokens == {Jwt(c) : c \in JwtClaims} \cup {NotAJwt}

\* jwtDecode(accessToken): the payload, or nothing (InvalidTokenError).
jwtDecodePayload(token) == token.payload

UserType == {"User", "ServicePrincipal"}

TokenInfo(name, objectId, userType) ==
    [name |-> name, objectId |-> objectId, userType |-> userType]

\* A JavaScript Error that is no ErrorWithCode: new Error(message), or the
\* InvalidTokenError of jwt-decode.
BareError(name, message) == [kind |-> name, code |-> "", message |-> message]

NotParsed == [st |-> "none", info |-> None, error |-> NoError]

ParseReturned(info) == [st |-> "returned", info |-> Some(info), error |-> NoError]

ParseThrown(error) == [st |-> "thrown", info |-> None, error |-> error]

\* parseToken that reads appidacr whatever the version.
parseToken_appidacrOnly(token) ==
    LET decoded == jwtDecodePayload(token) IN
    IF decoded = None
    THEN ParseThrown(BareError("InvalidTokenError", <<"Invalid token specified">>))
    ELSE LET jwt == decoded[1] IN
         IF jwt.ver \notin {"1.0", "2.0"}
         THEN ParseThrown(BareError("Error", <<"invalide token">>))
         ELSE IF jwt.appidacr = "0"
              THEN ParseReturned(TokenInfo(jwt.name, jwt.oid, "User"))
              ELSE ParseReturned(TokenInfo(jwt.appid, jwt.oid, "ServicePrincipal"))

\* parseToken(accessToken)
parseToken(token) ==
    LET decoded == jwtDecodePayload(token) IN
    IF decoded = None
    THEN ParseThrown(BareError("InvalidTokenError", <<"Invalid token specified">>))
    ELSE LET jwt == decoded[1]
             authType == IF jwt.ver = "1.0" THEN jwt.appidacr ELSE jwt.azpacr
         IN IF jwt.ver # "1.0" /\ jwt.ver # "2.0"
            THEN ParseThrown(BareError("Error", <<"invalide token">>))
            ELSE IF authType = "0"
                 THEN ParseReturned(TokenInfo(jwt.name, jwt.oid, "User"))
                 ELSE ParseReturned(TokenInfo(jwt.appid, jwt.oid, "ServicePrincipal"))

UserInfo(displayName, objectId, preferredUserName) ==
    [displayName |-> displayName, objectId |-> objectId,
     preferredUserName |-> preferredUserName]

\* The user information with the user name read from upn whatever the
\* version.
getUserInfoFromSsoToken_alwaysUpn(token) ==
    LET decoded == jwtDecodePayload(token) IN
    IF decoded = None
    THEN ParseThrown(ErrorWithCode(<<"Parse jwt token failed">>, "InternalError"))
    ELSE LET jwt == decoded[1] IN
         IF jwt.ver \notin {"1.0", "2.0"}
         THEN ParseThrown(BareError("UnsupportedTokenVersion", <<jwt.ver>>))
         ELSE ParseReturned(UserInfo(jwt.name, jwt.oid, jwt.upn))

\* getUserInfoFromSsoToken(ssoToken): display name and object id, and the
\* user name from the claim the token's version keeps it in.
getUserInfoFromSsoToken(token) ==
    LET decoded == jwtDecodePayload(token) IN
    IF decoded = None
    THEN ParseThrown(ErrorWithCode(<<"Parse jwt token failed">>, "InternalError"))
    ELSE LET jwt == decoded[1] IN
         IF jwt.ver = "1.0"
         THEN ParseReturned(UserInfo(jwt.name, jwt.oid, jwt.upn))
         ELSE IF jwt.ver = "2.0"
         THEN ParseReturned(UserInfo(jwt.name, jwt.oid, jwt.preferred_username))
         ELSE ParseThrown(BareError("UnsupportedTokenVersion", <<jwt.ver>>))

ParserIdle ==
    /\ accessToken = NotAJwt
    /\ tokenInfo = NotParsed
    /\ userInfo = NotParsed

----------------------------------------------------------------------------
(* runWithErrorCatchAndThrow of the function plugin *)

\* new FunctionPluginError(errorType, code, message, suggestions)
FunctionPluginError(errorType, code, message) ==
    [class |-> "FunctionPluginError", errorType |-> errorType, name |-> code,
     message |-> message]

\* new UserError(name, message, source), new SystemError(...), new Error(message)
FxError(class, name, message) ==
    [class |-> class, errorType |-> "", name |-> name, message |-> message]

\* The errors handed to runWithErrorCatchAndThrow.
SuppliedErrors ==
    { FunctionPluginError("System", "ut-code", "ut-msg"),
      FunctionPluginError("System", "UploadZipError", "Failed to upload zip package."),
      FunctionPluginError("User", "FunctionNameConflict",
                          "Function already exists, please choose another name.") }

\* What a callback throws or rejects with.
ThrownValues ==
    { FxError("UserError", "ut-name", "ut-msg"),
      FxError("SystemError", "ut-name", "ut-msg"),
      FxError("Error", "Error", "ut-name"),
      FxError("TypeError", "TypeError", "zip is undefined"),
      FunctionPluginError("User", "FetchConfigError", "Invalid key.") }

\* What a callback returns or resolves to.
RunValues == {"zip", "endpoint", Undefined}

NoThrown == FxError("", "", "")

\* The callbacks: fn returns a value, returns a promise that resolves or
\* rejects, or throws before returning.
FnBehaviours ==
    [mode : {"return", "resolve"}, value : RunValues, error : {NoThrown}]
    \cup [mode : {"throw", "reject"}, value : {Undefined}, error : ThrownValues]

\* e instanceof cls, for the classes above: each extends Error.
instanceOf(e, cls) == e.class = cls \/ (cls = "Error" /\ e.class # "")

\* e.toString()
toString(e) == <<e.name, e.message>>

IdleRun(error, fn) ==
    [st |-> "idle", error |-> error, fn |-> fn,
     result |-> None, thrown |-> None, logged |-> None]

\* The catch block that replaces every error by the one supplied.
catchAndThrow_replaceAll(r, e) ==
    [r EXCEPT !.st = "thrown", !.thrown = Some(r.error), !.logged = Some(toString(e))]

\* The catch block: a UserError or SystemError is thrown on as it is; any
\* other error is logged and the supplied error thrown in its place.
catchAndThrow(r, e) ==
    IF instanceOf(e, "UserError") \/ instanceOf(e, "SystemError")
    THEN [r EXCEPT !.st = "thrown", !.thrown = Some(e)]
    ELSE [r EXCEPT !.st = "thrown", !.thrown = Some(r.error), !.logged = Some(toString(e))]

\* runWithErrorCatchAndThrow up to its await: fn is called inside the try.
runStart(r) ==
    IF r.fn.mode = "throw"
    THEN catchAndThrow(r, r.fn.error)
    ELSE [r EXCEPT !.st = "awaiting"]

\* runWithErrorCatchAndThrow after its await of Promise.resolve(fn()).
runResume(r) ==
    IF r.fn.mode = "reject"
    THEN catchAndThrow(r, r.fn.error)
    ELSE [r EXCEPT !.st = "returned", !.result = Some(r.fn.value)]

RunIdle ==
    run = IdleRun(FunctionPluginError("System", "ut-code", "ut-msg"),
                  [mode |-> "return", value |-> Undefined, error |-> NoThrown])

----------------------------------------------------------------------------
(* The task lock of the VS Code extension: runCommand and runUserTask *)

\* Number of runCommand / runUserTask invocations.
MaxTasks == 3

TaskIds == 1..MaxTasks

\* null
Null == "null"

\* ok(value) and err(error) of neverthrow
Ok(value) == [isOk |-> TRUE, value |-> value, error |-> NoThrown]

Err(error) == [isOk |-> FALSE, value |-> Undefined, error |-> error]

\* Stage of fx-api, as far as runCommand is called with it.
Stages == {"create", "provision"}

\* The stages runCommand has a core operation for.
SupportedStages == {"create", "update", "provision", "deploy", "debug", "publish"}

\* func.method of the user tasks of the extension.
Funcs == {"addCapability"}

\* The core operation runCommand runs for a stage.
coreOperation(stage) == IF stage = "debug" THEN "localDebug" ELSE stage

\* The errors of the handlers.
ConcurrentTriggerTask ==
    FxError("UserError", "ConcurrentTriggerTask", "task is still running, please wait!")

UserCancel == FxError("UserError", "UserCancel", "User Cancel")

UnsupportedOperation(message) == FxError("SystemError", "UnsupportedOperation", message)

\* What core answers, and what it may throw.
CoreError == FxError("UserError", "NotSupportedProjectType", "core")

CoreThrown == FxError("Error", "Error", "core")

\* Result of core.getQuestions: a question tree, no tree, or an error.
QuestionResults ==
    { [kind |-> "node", error |-> NoThrown],
      [kind |-> "none", error |-> NoThrown],
      [kind |-> "err", error |-> CoreError] }

\* InputResult of traverse: the answers, an error, or the user's cancel.
InputResults ==
    { [type |-> "success", error |-> NoThrown],
      [type |-> "error", error |-> CoreError],
      [type |-> "cancel", error |-> NoThrown] }

\* What the core operation of step 6 does: resolves to ok or err, or rejects.
TaskOutcomes ==
    { [kind |-> "ok", error |-> NoThrown],
      [kind |-> "err", error |-> CoreError],
      [kind |-> "throw", error |-> CoreThrown] }

\* An invocation: st is its position, log the lock and core operations it did.
IdleTask ==
    [st |-> "idle", kind |-> "", name |-> "", result |-> Ok(Null), log |-> <<>>]

\* wrapError(e)
wrapError(e) ==
    IF instanceOf(e, "UserError") \/ instanceOf(e, "SystemError")
    THEN Err(e)
    ELSE Err(FxError("SystemError", "UnknwonError", e.message))

\* checkCoreNotEmpty()
checkCoreNotEmpty(coreSet) ==
    IF ~coreSet
    THEN Err(UnsupportedOperation("Core module is not ready!"))
    ELSE Ok(Null)

\* Step 7 kept inside the try: the entry is removed only when step 6 was
\* reached and returned.
unlock_insideTry(t, running, result) ==
    [task |-> [t EXCEPT !.st = "report", !.result = result,
                        !.log = IF result.isOk THEN Append(@, "delete") ELSE @],
     running |-> IF result.isOk THEN running \ {t.name} ELSE running]

\* Step 7, unlock, up to the await of step 8: runningTasks.delete(name), then
\* processResult is called.
unlock(t, running, result) ==
    [task |-> [t EXCEPT !.st = "report", !.result = result,
                        !.log = Append(@, "delete")],
     running |-> running \ {t.name}]

\* catch (e) { result = wrapError(e) }, then step 7.
catch(t, running, e) == unlock(t, running, wrapError(e))

\* Step 6, run task, up to its await.
runTask(t, running) ==
    IF t.kind = "userTask"
    THEN [task |-> [t EXCEPT !.st = "running", !.log = Append(@, "executeUserTask")],
          running |-> running]
    ELSE IF t.name \in SupportedStages
    THEN [task |-> [t EXCEPT !.st = "running", !.log = Append(@, coreOperation(t.name))],
          running |-> running]
    ELSE catch(t, running, UnsupportedOperation("Operation not support"))

\* Steps 2 to 4: lock, check core not empty, call getQuestions.
lock(t, kind, name, running, coreSet) ==
    LET locked == [t EXCEPT !.kind = kind, !.name = name, !.log = <<"add">>]
        held == running \cup {name}
    IN  IF ~checkCoreNotEmpty(coreSet).isOk
        THEN catch(locked, held, checkCoreNotEmpty(coreSet).error)
        ELSE [task |-> [locked EXCEPT
                          !.st = "questions",
                          !.log = Append(@, IF kind = "userTask"
                                            THEN "getQuestionsForUserTask"
                                            ELSE "getQuestions")],
              running |-> held]

\* Step 1: the result when the lock is held, up to the await of processResult.
reject(t, kind, name, running) ==
    [task |-> [t EXCEPT !.st = "rejected", !.kind = kind, !.name = name,
                        !.result = Err(ConcurrentTriggerTask)],
     running |-> running]

\* The lock test looking for the task's own name only.
runCommand_ownEntryOnly(t, stage, running, coreSet) ==
    IF stage \in running /\ stage # "create"
    THEN reject(t, "command", stage, running)
    ELSE lock(t, "command", stage, running, coreSet)

\* runCommand(stage) up to its first await.
runCommand(t, stage, running, coreSet) ==
    IF running # {} /\ stage # "create"
    THEN reject(t, "command", stage, running)
    ELSE lock(t, "command", stage, running, coreSet)

\* The lock test of a user task looking for the task's own name only.
runUserTask_ownEntryOnly(t, func, running, coreSet) ==
    IF func \in running
    THEN reject(t, "userTask", func, running)
    ELSE lock(t, "userTask", func, running, coreSet)

\* runUserTask(func) up to its first await.
runUserTask(t, func, running, coreSet) ==
    IF running # {}
    THEN reject(t, "userTask", func, running)
    ELSE lock(t, "userTask", func, running, coreSet)

\* After the await of step 4, up to the next await.
afterQuestions(t, running, qres) ==
    IF qres.kind = "err"
    THEN catch(t, running, qres.error)
    ELSE IF qres.kind = "node"
    THEN [task |-> [t EXCEPT !.st = "traverse"], running |-> running]
    ELSE runTask(t, running)

\* After the await of step 5, up to the next await.
afterTraverse(t, running, res) ==
    IF res.type = "error" /\ (t.kind = "command" \/ res.error # NoThrown)
    THEN catch(t, running, res.error)
    ELSE IF res.type = "cancel"
    THEN catch(t, running, UserCancel)
    ELSE runTask(t, running)

\* After the await of step 6, up to the await of step 8.
afterTask(t, running, outcome) ==
    IF outcome.kind = "throw"
    THEN catch(t, running, outcome.error)
    ELSE unlock(t, running, IF outcome.kind = "ok" THEN Ok(Null) ELSE Err(outcome.error))

\* processResult(eventName, result) returns and the handler returns result.
processResult(t) == [t EXCEPT !.st = "returned"]

TasksIdle ==
    /\ runningTasks = {}
    /\ tasks = [t \in TaskIds |-> IdleTask]
    /\ core = FALSE

----------------------------------------------------------------------------
(* CoreImpl: the environments *)

\* Environment names the operations are called with.
EnvNames == {"default", "dev", "test"}

\* new Map(): a solution config nothing has been written to, and one the
\* solution has written to.
EmptyConfig == {}

WrittenConfig == {"solution"}

\* error.EnvAlreadyExist(env), error.EnvNotExist(env)
EnvAlreadyExist(name) == FxError("UserError", "EnvAlreadyExist", name)

EnvNotExist(name) == FxError("UserError", "EnvNotExist", name)

\* this.configs.set(key, value)
mapSet(map, key, value) ==
    [k \in DOMAIN map \cup {key} |-> IF k = key THEN value ELSE map[k]]

\* this.configs.delete(key)
mapDelete(map, key) == [k \in DOMAIN map \ {key} |-> map[k]]

\* this.configs.get(key)
mapGet(map, key) == IF key \in DOMAIN map THEN Some(map[key]) ELSE None

\* No environment operation has been called.
NoEnvCall == [op |-> "", arg |-> "", isOk |-> TRUE, error |-> NoThrown, value |-> {}]

EnvCall(op, arg, result, value) ==
    [op |-> op, arg |-> arg, isOk |-> result.isOk, error |-> result.error, value |-> value]

\* createEnv that resets an environment that exists.
createEnv_overwrite(cfgs, name) ==
    [configs |-> mapSet(cfgs, name, EmptyConfig), result |-> Ok(Null)]

\* createEnv(env)
createEnv(cfgs, name) ==
    IF name \in DOMAIN cfgs
    THEN [configs |-> cfgs, result |-> Err(EnvAlreadyExist(name))]
    ELSE [configs |-> mapSet(cfgs, name, EmptyConfig), result |-> Ok(Null)]

\* removeEnv(env)
removeEnv(cfgs, name) ==
    IF name \notin DOMAIN cfgs
    THEN [configs |-> cfgs, result |-> Err(EnvNotExist(name))]
    ELSE [configs |-> mapDelete(cfgs, name), result |-> Ok(Null)]

\* switchEnv(env)
switchEnv(cfgs, active, name) ==
    IF name \in DOMAIN cfgs
    THEN [env |-> name, result |-> Ok(Null)]
    ELSE [env |-> active, result |-> Err(EnvNotExist(name))]

\* listEnvs(): the value of the ok result
listEnvs(cfgs) == DOMAIN cfgs

\* solutionContext(answers).config outside the create stage
solutionContext(cfgs, active) == mapGet(cfgs, active)

\* new CoreImpl()
EnvIdle ==
    /\ env = "default"
    /\ configs = mapSet(<<>>, "default", EmptyConfig)
    /\ envCall = NoEnvCall

----------------------------------------------------------------------------
(* CoreProxy.runWithErrorHandling *)

\* error.NotSupportedProjectType(), error.ReadFileError(e), error.WriteFileError(e)
NotSupportedProjectType == FxError("UserError", "NotSupportedProjectType", "")

ReadFileError == FxError("SystemError", "ReadFileError", "")

WriteFileError == FxError("SystemError", "WriteFileError", "")

\* notSupportedRes of the operations: ok(null), ok(undefined), ok({}) or
\* err(NotSupportedProjectType).
NotSupportedResults == {Ok(Null), Err(NotSupportedProjectType)}

\* What the calls of one invocation do: isSupported resolves to true or
\* false or rejects, readConfigs and writeConfigs resolve to ok or err, fn
\* resolves to ok or err or rejects.
ProxyWorlds ==
    [supported : {"true", "false", "throw"},
     read : {"ok", "err"},
     fn : {"ok", "err", "throwUserError", "throwSystemError", "throwError"},
     write : {"ok", "err"}]

\* The result or the error of fn.
fnResult(world) ==
    IF world.fn = "ok" THEN Ok("value") ELSE Err(CoreError)

fnThrown(world) ==
    IF world.fn = "throwUserError" THEN FxError("UserError", "ut-name", "ut-msg")
    ELSE IF world.fn = "throwSystemError" THEN FxError("SystemError", "ut-name", "ut-msg")
    ELSE CoreThrown

\* A try block that completes by return or by throw.
Return(result) == [kind |-> "return", result |-> result, error |-> NoThrown]

Throw(error) == [kind |-> "throw", result |-> Ok(Null), error |-> error]

IdleProxy(checkAndConfig, notSupportedRes, world) ==
    [st |-> "idle", checkAndConfig |-> checkAndConfig,
     notSupportedRes |-> notSupportedRes, world |-> world,
     log |-> <<>>, completion |-> Return(Ok(Null)),
     result |-> Ok(Null), thrown |-> NoThrown]

\* The invocation p calls what, and awaits it.
await(p, what) == [p EXCEPT !.st = what, !.log = Append(@, what)]

\* The finally block up to its await: the try or catch block has completed.
finally(p, completion) ==
    IF p.checkAndConfig
    THEN await([p EXCEPT !.completion = completion], "writeConfigs")
    ELSE IF completion.kind = "return"
    THEN [p EXCEPT !.st = "returned", !.result = completion.result]
    ELSE [p EXCEPT !.st = "thrown", !.thrown = completion.error]

\* The catch block.
catchCore(p, e) ==
    IF instanceOf(e, "UserError") \/ instanceOf(e, "SystemError")
    THEN finally(p, Return(Err(e)))
    ELSE finally(p, Return(Err(FxError("SystemError", "UncatchedError", e.message))))

\* runWithErrorHandling up to its first await.
runWithErrorHandling(p) ==
    IF p.checkAndConfig THEN await(p, "isSupported") ELSE await(p, "fn")

\* After await this.coreImpl.isSupported().
afterIsSupported(p) ==
    IF p.world.supported = "throw" THEN catchCore(p, CoreThrown)
    ELSE IF p.world.supported = "false" THEN finally(p, Return(p.notSupportedRes))
    ELSE await(p, "readConfigs")

\* After await this.coreImpl.readConfigs().
afterReadConfigs(p) ==
    IF p.world.read = "err"
    THEN finally(p, Return(Err(ReadFileError)))
    ELSE await(p, "fn")

\* After await fn().
afterFn(p) ==
    IF p.world.fn \in {"ok", "err"}
    THEN finally(p, Return(fnResult(p.world)))
    ELSE catchCore(p, fnThrown(p.world))

\* After await this.coreImpl.writeConfigs(), in the finally block.
afterWriteConfigs(p) ==
    IF p.world.write = "err"
    THEN [p EXCEPT !.st = "returned", !.result = Err(WriteFileError)]
    ELSE IF p.completion.kind = "return"
    THEN [p EXCEPT !.st = "returned", !.result = p.completion.result]
    ELSE [p EXCEPT !.st = "thrown", !.thrown = p.completion.error]

ProxyIdle ==
    proxy = IdleProxy(TRUE, Ok(Null),
                      [supported |-> "true", read |-> "ok", fn |-> "ok", write |-> "ok"])

----------------------------------------------------------------------------
(* The bot plugin: provision, preDeploy, updateMessageEndpointOnAppStudio *)

\* Number of lifecycle calls made on the plugin.
MaxBotCalls == 3

\* Retry.UPDATE_MESSAGE_ENDPOINT_TIMES
UPDATE_MESSAGE_ENDPOINT_TIMES == 3

\* WayToRegisterBot
WayToRegisterBot == {"CreateNew", "ReuseExisting"}

\* A lifecycle call: done holds the provisioning steps that completed.
IdleBotCall == [op |-> "", st |-> "idle", done |-> {}, thrown |-> ""]

\* An updateMessageEndpointOnAppStudio invocation: attempts counts the
\* passes through the try block, waits the setTimeout gaps.
IdleUpdate ==
    [st |-> "idle", retries |-> 0, attempts |-> 0, waits |-> 0,
     succeeded |-> FALSE, thrown |-> ""]

\* new TeamsBotImpl() in a project scaffolded with the given way.
IdleBot(way) ==
    [config |-> [wayToRegisterBot |-> way, provisioned |-> FALSE],
     context |-> [provisioned |-> FALSE],
     call |-> IdleBotCall, history |-> <<>>, update |-> IdleUpdate]

\* this.config.restoreConfigFromContext(context): the config is read back
\* from what the context holds.
restoreConfigFromContext(b) ==
    [b EXCEPT !.config.provisioned = b.context.provisioned]

\* this.config.saveConfigIntoContext(context)
saveConfigIntoContext(b) ==
    [b EXCEPT !.context.provisioned = b.config.provisioned]

\* The lifecycle call returns ResultFactory.Success().
Success(b) ==
    [b EXCEPT !.call.st = "returned",
              !.history = Append(@, [op |-> b.call.op, outcome |-> "Success"])]

\* The lifecycle call throws.
Exception(b, name) ==
    [b EXCEPT !.call.st = "thrown", !.call.thrown = name,
              !.history = Append(@, [op |-> b.call.op, outcome |-> name])]

\* provision that marks the plugin provisioned before it provisions.
provision_flagFirst(b) ==
    LET r == [restoreConfigFromContext(b) EXCEPT !.config.provisioned = TRUE]
    IN  [r EXCEPT !.call = [IdleBotCall EXCEPT
                              !.op = "provision",
                              !.st = IF r.config.wayToRegisterBot = "CreateNew"
                                     THEN "registration" ELSE "webApp"]]

\* provision(context) up to the await of its first provisioning step.
provision(b) ==
    LET r == restoreConfigFromContext(b)
    IN  [r EXCEPT !.call = [IdleBotCall EXCEPT
                              !.op = "provision",
                              !.st = IF r.config.wayToRegisterBot = "CreateNew"
                                     THEN "registration" ELSE "webApp"]]

\* After await this.createNewBotRegistrationOnAzure().
afterRegistration(b, completed) ==
    IF completed
    THEN [b EXCEPT !.call.st = "webApp", !.call.done = @ \cup {"registration"}]
    ELSE Exception(b, "ProvisionException")

\* After await this.provisionWebApp().
afterWebApp(b, completed) ==
    IF completed
    THEN Success(saveConfigIntoContext(
             [b EXCEPT !.config.provisioned = TRUE,
                       !.call.done = @ \cup {"webApp"}]))
    ELSE Exception(b, "ProvisionException")

\* preDeploy(context)
preDeploy(b, packDirExisted) ==
    LET r == [restoreConfigFromContext(b) EXCEPT
                !.call = [IdleBotCall EXCEPT !.op = "preDeploy"]]
    IN  IF ~r.config.provisioned
        THEN Exception(r, "DeployWithoutProvisionException")
        ELSE IF ~packDirExisted
        THEN Exception(r, "PackDirExistenceException")
        ELSE Success(saveConfigIntoContext(r))

\* updateMessageEndpointOnAppStudio(endpoint) up to its first await.
updateMessageEndpointOnAppStudio(u) == [u EXCEPT !.st = "token"]

\* while (retries > 0) { try { await AppStudio.init(...)
attempt(u) ==
    IF u.retries > 0
    THEN [u EXCEPT !.st = "init", !.attempts = @ + 1]
    ELSE [u EXCEPT !.st = "returned"]

\* After await getAccessToken(): the two CheckThrowSomethingMissing, then
\* the loop is entered.
afterToken(u, token, localBotId) ==
    IF ~token \/ ~localBotId
    THEN [u EXCEPT !.st = "thrown", !.thrown = "SomethingMissingException"]
    ELSE attempt([u EXCEPT !.retries = UPDATE_MESSAGE_ENDPOINT_TIMES])

\* The catch block that waits after the last failure too.
failed_waitAlways(u) ==
    [u EXCEPT !.retries = @ - 1, !.st = "gap", !.waits = @ + 1]

\* The catch block, up to its await or, with no retries left, to the end of
\* the loop.
failed(u) ==
    LET r == [u EXCEPT !.retries = @ - 1]
    IN  IF r.retries > 0
        THEN [r EXCEPT !.st = "gap", !.waits = @ + 1]
        ELSE attempt(r)

\* After await AppStudio.init(appStudioToken).
afterInit(u, completed) ==
    IF completed THEN [u EXCEPT !.st = "update"] ELSE failed(u)

\* After await AppStudio.updateMessageEndpoint(botId, botReg).
afterUpdateMessageEndpoint(u, completed) ==
    IF completed
    THEN [u EXCEPT !.st = "returned", !.succeeded = TRUE]
    ELSE failed(u)

\* After the setTimeout of the gap: continue.
afterGap(u) == attempt(u)

BotIdle == bot = IdleBot("CreateNew")

\* The extension, the core and the bot plugin before anything is called.
ToolsIdle == TasksIdle /\ EnvIdle /\ ProxyIdle /\ BotIdle

----------------------------------------------------------------------------
(* TeamsUserCredential: the token cache and the near-expiry test *)

\* Number of TeamsUserCredential.getToken invocations followed.
MaxBrokerCalls == 2

BrokerCallIds == 1..MaxBrokerCalls

\* The broker's clock advances BrokerTickMs at a time, MaxBrokerTicks times.
BrokerTickMs == 300000

MaxBrokerTicks == 2

\* Lifetimes of the tokens the authentication endpoint and login hand out.
ShortLifetimeMs == 540000

LongLifetimeMs == 600000

\* The safety margin before expiry: five minutes.
tokenRefreshTimeSpanInMillisecond == 300000

\* The signed-in user and the application, as read from the SSO token and the
\* configuration.
BrokerUser == [userId |-> "fake-oid", clientId |-> "fake_client_id", tenantId |-> "fake-tid"]

\* scopeStr of getToken: a string as it is, an array joined with " ".
scopeStr(scopes) == IF scopes.type = "string" THEN scopes.val ELSE join(scopes.val)

\* The key without the tenant.
getAccessTokenCacheKey_noTenant(userId, clientId, tenantId, scopes) ==
    <<"accessToken", userId, clientId, scopes>>

\* getAccessTokenCacheKey(userId, clientId, tenantId, scopeStr)
getAccessTokenCacheKey(userId, clientId, tenantId, scopes) ==
    <<"accessToken", userId, clientId, tenantId, scopes>>

\* The scopes arguments tried on the broker.
BrokerScopesInputs ==
    { [type |-> "string", val |-> EmptyStr],
      [type |-> "string", val |-> <<"a", " ", "b">>],
      [type |-> "array",  val |-> << <<"a">>, <<"b">> >>],
      [type |-> "string", val |-> <<"b", " ", "a">>] }

\* The keys those arguments lead to.
CacheKeys ==
    { getAccessTokenCacheKey(BrokerUser.userId, BrokerUser.clientId, BrokerUser.tenantId,
                             scopeStr(s)) :
        s \in {x \in BrokerScopesInputs : scopeStr(x) # EmptyStr} }

NoCache == [k \in CacheKeys |-> None]

\* getTokenCache(key): the entry, or nothing.
getTokenCache(store, key) == store[key]

\* setTokenCache that stores nothing.
setTokenCache_notStored(store, key, token) == store

\* setTokenCache that keeps an entry the key already has.
setTokenCache_keepFirst(store, key, token) ==
    IF store[key] = None THEN [store EXCEPT ![key] = Some(token)] ELSE store

\* setTokenCache(key, token): the entry for key is replaced.
setTokenCache(store, key, token) == [store EXCEPT ![key] = Some(token)]

\* The near-expiry test with a token at the margin taken for fresh.
isAccessTokenNearExpired_atMargin(expiresOnTimestamp, t) ==
    ~(expiresOnTimestamp - t >= tokenRefreshTimeSpanInMillisecond)

\* isAccessTokenNearExpired(expiresOnTimestamp) at time t: the token's
\* remaining lifetime is at most the margin.
isAccessTokenNearExpired(expiresOnTimestamp, t) ==
    ~(expiresOnTimestamp - t > tokenRefreshTimeSpanInMillisecond)

----------------------------------------------------------------------------
(* TeamsUserCredential: login and getToken *)

\* What getSSOToken resolves to: the SSO token Teams hands the page.
BrokerSsoToken == AccessToken("fakeSSOToken", LongLifetimeMs)

NoRemoteOutcome == [kind |-> "none", token |-> AccessToken("", 0)]

\* What the request to the authentication endpoint can end in at time t: a
\* token with its expiry, or a failure (the user has not logged in, the
\* endpoint cannot be reached, ...).
RemoteOutcomes(t) ==
    { [kind |-> "token", token |-> AccessToken("R1", t + ShortLifetimeMs)],
      [NoRemoteOutcome EXCEPT !.kind = "failure"] }

\* A TeamsUserCredential.getToken invocation that has not been made yet.
\* cachedToken is what the invocation found in the cache, kept while it waits
\* for the authentication endpoint; response is how the endpoint answered.
IdleBrokerCall ==
    [st |-> "idle", scopes |-> [type |-> "string", val |-> EmptyStr],
     cachedToken |-> None, requests |-> 0, response |-> "none",
     result |-> None, error |-> NoError]

KeyOf(scopes) ==
    getAccessTokenCacheKey(BrokerUser.userId, BrokerUser.clientId, BrokerUser.tenantId,
                           scopeStr(scopes))

\* getToken that does not look in the cache.
brokerGetTokenStart_noCache(call, scopes, t, store) ==
    LET c == [call EXCEPT !.scopes = scopes] IN
    IF scopeStr(scopes) = EmptyStr
    THEN Returned(c, BrokerSsoToken)
    ELSE [c EXCEPT !.st = "awaiting", !.requests = @ + 1]

\* getToken up to its request: with no scope the SSO token is returned; a
\* cached token that is not near expiry is returned; otherwise the request is
\* sent to the authentication endpoint.
brokerGetTokenStart(call, scopes, t, store) ==
    LET c == [call EXCEPT !.scopes = scopes] IN
    IF scopeStr(scopes) = EmptyStr
    THEN Returned(c, BrokerSsoToken)
    ELSE LET cachedToken == getTokenCache(store, KeyOf(scopes))
         IN IF cachedToken # None
               /\ ~isAccessTokenNearExpired(cachedToken[1].expiresOnTimestamp, t)
            THEN Returned(c, cachedToken[1])
            ELSE [c EXCEPT !.st = "awaiting", !.cachedToken = cachedToken,
                           !.requests = @ + 1]

\* getToken that falls back on the token it found in the cache when the
\* request fails.
brokerGetTokenResume_staleOnFailure(call, outcome) ==
    LET c == [call EXCEPT !.cachedToken = None, !.response = outcome.kind] IN
    IF outcome.kind = "token"
    THEN Returned(c, outcome.token)
    ELSE IF call.cachedToken # None
         THEN Returned(c, call.cachedToken[1])
         ELSE Thrown(c, ErrorWithCode(
                <<"Failed to get access token cache from authentication server, please login first">>,
                "UiRequiredError"))

\* getAndCacheAccessTokenFromSimpleAuthServer after its request: the token is
\* returned, or a UiRequiredError thrown.
brokerGetTokenResume(call, outcome) ==
    LET c == [call EXCEPT !.cachedToken = None, !.response = outcome.kind] IN
    IF outcome.kind = "token"
    THEN Returned(c, outcome.token)
    ELSE Thrown(c, ErrorWithCode(
            <<"Failed to get access token cache from authentication server, please login first">>,
            "UiRequiredError"))

\* Time passes for the broker.
BrokerTick ==
    /\ now < MaxBrokerTicks * BrokerTickMs
    /\ now' = now + BrokerTickMs
    /\ UNCHANGED <<oboVars, brokerVars, parserVars, runVars, toolVars>>

\* credential.login(scopes): the token obtained through the consent popup is
\* put in the cache.
Login(scopes) ==
    /\ scopeStr(scopes) # EmptyStr
    /\ cache' = setTokenCache(cache, KeyOf(scopes), AccessToken("L1", now + LongLifetimeMs))
    /\ UNCHANGED <<now, oboVars, bcalls, remote, parserVars, runVars, toolVars>>

\* credential.getToken(scopes) is called on the broker.
BrokerGetToken(c, scopes) ==
    /\ bcalls[c].st = "idle"
    /\ \A d \in BrokerCallIds : d < c => bcalls[d].st # "idle"
    /\ bcalls' = [bcalls EXCEPT ![c] = brokerGetTokenStart(bcalls[c], scopes, now, cache)]
    /\ remote' = remote + (bcalls'[c].requests - bcalls[c].requests)
    /\ UNCHANGED <<now, oboVars, cache, parserVars, runVars, toolVars>>

\* The answer of the endpoint with a guard on the order of the requests: a
\* token is not stored when an invocation made later has already stored one
\* under the key.
RemoteRespond_newerWins(c, outcome) ==
    /\ bcalls[c].st = "awaiting"
    /\ bcalls' = [bcalls EXCEPT ![c] = brokerGetTokenResume(bcalls[c], outcome)]
    /\ cache' = IF /\ outcome.kind = "token"
                   /\ ~\E d \in BrokerCallIds :
                        /\ d > c
                        /\ bcalls[d].response = "token"
                        /\ KeyOf(bcalls[d].scopes) = KeyOf(bcalls[c].scopes)
                THEN setTokenCache(cache, KeyOf(bcalls[c].scopes), outcome.token)
                ELSE cache
    /\ UNCHANGED <<now, oboVars, remote, parserVars, runVars, toolVars>>

\* The authentication endpoint answers the request of invocation c; a token is
\* stored under the key of the request.
RemoteRespond(c, outcome) ==
    /\ bcalls[c].st = "awaiting"
    /\ bcalls' = [bcalls EXCEPT ![c] = brokerGetTokenResume(bcalls[c], outcome)]
    /\ cache' = IF outcome.kind = "token"
                THEN setTokenCache(cache, KeyOf(bcalls[c].scopes), outcome.token)
                ELSE cache
    /\ UNCHANGED <<now, oboVars, remote, parserVars, runVars, toolVars>>

BrokerRespond == \E c \in BrokerCallIds, o \in RemoteOutcomes(now) : RemoteRespond(c, o)

InitBroker ==
    /\ now = 0
    /\ config = [f \in {ConfigFields[i] : i \in 1..Len(ConfigFields)} |-> "set"]
    /\ cred = NoCred
    /\ calls = [c \in CallIds |-> IdleCall]
    /\ provider = 0
    /\ cache = NoCache
    /\ bcalls = [c \in BrokerCallIds |-> IdleBrokerCall]
    /\ remote = 0
    /\ ParserIdle
    /\ RunIdle
    /\ ToolsIdle

NextBroker ==
    \/ BrokerTick
    \/ \E s \in BrokerScopesInputs : Login(s)
    \/ \E c \in BrokerCallIds, s \in BrokerScopesInputs : BrokerGetToken(c, s)
    \/ BrokerRespond

SpecBroker == InitBroker /\ [][NextBroker]_vars

----------------------------------------------------------------------------
(* Actions *)

\* Time passes.
Tick ==
    /\ now < MaxTicks * TickMs
    /\ now' = now + TickMs
    /\ UNCHANGED <<oboVars, brokerVars, parserVars, runVars, toolVars>>

\* new OnBehalfOfUserCredential(ssoToken)
Construct(ssoToken) ==
    /\ cred.state = "none"
    /\ cred' = constructor(config, ssoToken)
    /\ UNCHANGED <<now, config, calls, provider, brokerVars, parserVars, runVars, toolVars>>

\* credential.getToken(scopes) is called: invocations are numbered in the
\* order they are made.
GetToken(c, scopes) ==
    /\ cred.state = "constructed"
    /\ calls[c].st = "idle"
    /\ \A d \in CallIds : d < c => calls[d].st # "idle"
    /\ calls' = [calls EXCEPT ![c] = getTokenStart(calls[c], scopes, now, cred.ssoToken[1])]
    /\ provider' = provider + (calls'[c].requests - calls[c].requests)
    /\ UNCHANGED <<now, config, cred, brokerVars, parserVars, runVars, toolVars>>

\* The identity provider answers the exchange of invocation c.
ProviderRespond(c, outcome) ==
    /\ calls[c].st = "awaiting"
    /\ calls' = [calls EXCEPT ![c] = getTokenResume(calls[c], outcome)]
    /\ UNCHANGED <<now, config, cred, provider, brokerVars, parserVars, runVars, toolVars>>

\* The identity provider answers some outstanding exchange.
Respond == \E c \in CallIds, o \in ProviderOutcomes(now) : ProviderRespond(c, o)

Init ==
    /\ now = 0
    /\ config \in Configs
    /\ cred = NoCred
    /\ calls = [c \in CallIds |-> IdleCall]
    /\ provider = 0
    /\ cache = NoCache
    /\ bcalls = [c \in BrokerCallIds |-> IdleBrokerCall]
    /\ remote = 0
    /\ ParserIdle
    /\ RunIdle
    /\ ToolsIdle

Next ==
    \/ Tick
    \/ \E t \in SsoTokenStrings : Construct(t)
    \/ \E c \in CallIds, s \in ScopesInputs : GetToken(c, s)
    \/ Respond

Spec == Init /\ [][Next]_vars

\* The credentials before anything is constructed or called.
CredentialsIdle ==
    /\ now = 0
    /\ config = [f \in {ConfigFields[i] : i \in 1..Len(ConfigFields)} |-> "set"]
    /\ cred = NoCred
    /\ calls = [c \in CallIds |-> IdleCall]
    /\ provider = 0
    /\ cache = NoCache
    /\ bcalls = [c \in BrokerCallIds |-> IdleBrokerCall]
    /\ remote = 0

\* parseToken(accessToken) is called.
ParseToken ==
    /\ tokenInfo.st = "none"
    /\ tokenInfo' = parseToken(accessToken)
    /\ UNCHANGED <<now, oboVars, brokerVars, accessToken, userInfo, runVars, toolVars>>

\* credential.getUserInfo() is called on a credential that holds the token.
GetUserInfo ==
    /\ userInfo.st = "none"
    /\ userInfo' = getUserInfoFromSsoToken(accessToken)
    /\ UNCHANGED <<now, oboVars, brokerVars, accessToken, tokenInfo, runVars, toolVars>>

InitParser ==
    /\ CredentialsIdle
    /\ accessToken \in AccessTokens
    /\ tokenInfo = NotParsed
    /\ userInfo = NotParsed
    /\ RunIdle
    /\ ToolsIdle

NextParser == ParseToken \/ GetUserInfo

SpecParser == InitParser /\ [][NextParser]_vars

\* runWithErrorCatchAndThrow(error, fn) is called.
RunCall ==
    /\ run.st = "idle"
    /\ run' = runStart(run)
    /\ UNCHANGED <<now, oboVars, brokerVars, parserVars, toolVars>>

\* The promise runWithErrorCatchAndThrow awaits settles.
RunSettle ==
    /\ run.st = "awaiting"
    /\ run' = runResume(run)
    /\ UNCHANGED <<now, oboVars, brokerVars, parserVars, toolVars>>

InitRun ==
    /\ CredentialsIdle
    /\ ParserIdle
    /\ run \in {IdleRun(e, f) : e \in SuppliedErrors, f \in FnBehaviours}
    /\ ToolsIdle

NextRun == RunCall \/ RunSettle

SpecRun == InitRun /\ [][NextRun]_vars

\* activate() of the extension sets the core module.
activate ==
    /\ ~core
    /\ core' = TRUE
    /\ UNCHANGED <<now, oboVars, brokerVars, parserVars, runVars,
                   runningTasks, tasks, envVars, proxyVars, botVars>>

\* The handler's result r = [task, running] becomes the state.
Becomes(t, r) ==
    /\ tasks' = [tasks EXCEPT ![t] = r.task]
    /\ runningTasks' = r.running
    /\ UNCHANGED <<now, oboVars, brokerVars, parserVars, runVars,
                   core, envVars, proxyVars, botVars>>

\* A command of the extension calls runCommand(stage).
RunCommand(t, stage) ==
    /\ tasks[t].st = "idle"
    /\ \A u \in TaskIds : u < t => tasks[u].st # "idle"
    /\ Becomes(t, runCommand(tasks[t], stage, runningTasks, core))

\* A command of the extension calls runUserTask(func).
RunUserTask(t, func) ==
    /\ tasks[t].st = "idle"
    /\ \A u \in TaskIds : u < t => tasks[u].st # "idle"
    /\ Becomes(t, runUserTask(tasks[t], func, runningTasks, core))

\* core.getQuestions / getQuestionsForUserTask answers invocation t.
QuestionsReturn(t, qres) ==
    /\ tasks[t].st = "questions"
    /\ Becomes(t, afterQuestions(tasks[t], runningTasks, qres))

\* traverse answers invocation t.
TraverseReturn(t, res) ==
    /\ tasks[t].st = "traverse"
    /\ Becomes(t, afterTraverse(tasks[t], runningTasks, res))

\* The core operation of invocation t settles.
TaskReturn(t, outcome) ==
    /\ tasks[t].st = "running"
    /\ Becomes(t, afterTask(tasks[t], runningTasks, outcome))

\* processResult of invocation t returns, and with it the handler.
ProcessResult(t) ==
    /\ tasks[t].st \in {"rejected", "report"}
    /\ Becomes(t, [task |-> processResult(tasks[t]), running |-> runningTasks])

InitTasks ==
    /\ CredentialsIdle
    /\ ParserIdle
    /\ RunIdle
    /\ ToolsIdle

NextTasks ==
    \/ activate
    \/ \E t \in TaskIds, s \in Stages : RunCommand(t, s)
    \/ \E t \in TaskIds, f \in Funcs : RunUserTask(t, f)
    \/ \E t \in TaskIds, q \in QuestionResults : QuestionsReturn(t, q)
    \/ \E t \in TaskIds, r \in InputResults : TraverseReturn(t, r)
    \/ \E t \in TaskIds, o \in TaskOutcomes : TaskReturn(t, o)
    \/ \E t \in TaskIds : ProcessResult(t)

SpecTasks == InitTasks /\ [][NextTasks]_vars


\* coreImpl.createEnv(name)
CreateEnv(name) ==
    /\ configs' = createEnv(configs, name).configs
    /\ envCall' = EnvCall("createEnv", name, createEnv(configs, name).result, {})
    /\ UNCHANGED <<now, oboVars, brokerVars, parserVars, runVars,
                   taskVars, env, proxyVars, botVars>>

\* coreImpl.removeEnv(name)
RemoveEnv(name) ==
    /\ configs' = removeEnv(configs, name).configs
    /\ envCall' = EnvCall("removeEnv", name, removeEnv(configs, name).result, {})
    /\ UNCHANGED <<now, oboVars, brokerVars, parserVars, runVars,
                   taskVars, env, proxyVars, botVars>>

\* coreImpl.switchEnv(name)
SwitchEnv(name) ==
    /\ env' = switchEnv(configs, env, name).env
    /\ envCall' = EnvCall("switchEnv", name, switchEnv(configs, env, name).result, {})
    /\ UNCHANGED <<now, oboVars, brokerVars, parserVars, runVars,
                   taskVars, configs, proxyVars, botVars>>

\* coreImpl.listEnvs()
ListEnvs ==
    /\ envCall' = EnvCall("listEnvs", "", Ok(Null), listEnvs(configs))
    /\ UNCHANGED <<now, oboVars, brokerVars, parserVars, runVars,
                   taskVars, env, configs, proxyVars, botVars>>

\* coreImpl.provision(answers): the solution is handed solutionContext and
\* writes to its config; with no config for the active environment the
\* write fails on undefined.
Provision ==
    /\ configs' = IF solutionContext(configs, env) # None
                  THEN mapSet(configs, env, WrittenConfig)
                  ELSE configs
    /\ envCall' = EnvCall("provision", env,
                          IF solutionContext(configs, env) # None
                          THEN Ok(Null)
                          ELSE Err(FxError("TypeError", "TypeError", "config is undefined")),
                          {})
    /\ UNCHANGED <<now, oboVars, brokerVars, parserVars, runVars,
                   taskVars, env, proxyVars, botVars>>

InitEnv ==
    /\ CredentialsIdle
    /\ ParserIdle
    /\ RunIdle
    /\ ToolsIdle

NextEnv ==
    \/ \E n \in EnvNames : CreateEnv(n)
    \/ \E n \in EnvNames : RemoveEnv(n)
    \/ \E n \in EnvNames : SwitchEnv(n)
    \/ ListEnvs
    \/ Provision

SpecEnv == InitEnv /\ [][NextEnv]_vars

\* A CoreProxy operation calls runWithErrorHandling.
ProxyCall ==
    /\ proxy.st = "idle"
    /\ proxy' = runWithErrorHandling(proxy)
    /\ UNCHANGED <<now, oboVars, brokerVars, parserVars, runVars,
                   taskVars, envVars, botVars>>

\* isSupported settles.
IsSupportedReturn ==
    /\ proxy.st = "isSupported"
    /\ proxy' = afterIsSupported(proxy)
    /\ UNCHANGED <<now, oboVars, brokerVars, parserVars, runVars,
                   taskVars, envVars, botVars>>

\* readConfigs settles.
ReadConfigsReturn ==
    /\ proxy.st = "readConfigs"
    /\ proxy' = afterReadConfigs(proxy)
    /\ UNCHANGED <<now, oboVars, brokerVars, parserVars, runVars,
                   taskVars, envVars, botVars>>

\* The wrapped operation settles.
FnReturn ==
    /\ proxy.st = "fn"
    /\ proxy' = afterFn(proxy)
    /\ UNCHANGED <<now, oboVars, brokerVars, parserVars, runVars,
                   taskVars, envVars, botVars>>

\* writeConfigs settles.
WriteConfigsReturn ==
    /\ proxy.st = "writeConfigs"
    /\ proxy' = afterWriteConfigs(proxy)
    /\ UNCHANGED <<now, oboVars, brokerVars, parserVars, runVars,
                   taskVars, envVars, botVars>>

InitProxy ==
    /\ CredentialsIdle
    /\ ParserIdle
    /\ RunIdle
    /\ TasksIdle
    /\ EnvIdle
    /\ BotIdle
    /\ proxy \in {IdleProxy(c, n, w) :
                    c \in BOOLEAN, n \in NotSupportedResults, w \in ProxyWorlds}

NextProxy ==
    \/ ProxyCall
    \/ IsSupportedReturn
    \/ ReadConfigsReturn
    \/ FnReturn
    \/ WriteConfigsReturn

SpecProxy == InitProxy /\ [][NextProxy]_vars

\* The bot plugin's state becomes b.
BotBecomes(b) ==
    /\ bot' = b
    /\ UNCHANGED <<now, oboVars, brokerVars, parserVars, runVars,
                   taskVars, envVars, proxyVars>>

\* The solution calls provision(context): no lifecycle call is running.
ProvisionCall ==
    /\ bot.call.st \in {"idle", "returned", "thrown"}
    /\ Len(bot.history) < MaxBotCalls
    /\ BotBecomes(provision(bot))

\* createNewBotRegistrationOnAzure settles.
RegistrationReturn(completed) ==
    /\ bot.call.st = "registration"
    /\ BotBecomes(afterRegistration(bot, completed))

\* provisionWebApp settles.
WebAppReturn(completed) ==
    /\ bot.call.st = "webApp"
    /\ BotBecomes(afterWebApp(bot, completed))

\* The solution calls preDeploy(context): no lifecycle call is running.
PreDeployCall(packDirExisted) ==
    /\ bot.call.st \in {"idle", "returned", "thrown"}
    /\ Len(bot.history) < MaxBotCalls
    /\ BotBecomes(preDeploy(bot, packDirExisted))

\* postLocalDebug calls updateMessageEndpointOnAppStudio(endpoint).
UpdateCall ==
    /\ bot.update.st = "idle"
    /\ BotBecomes([bot EXCEPT !.update = updateMessageEndpointOnAppStudio(@)])

\* getAccessToken settles.
TokenReturn(token, localBotId) ==
    /\ bot.update.st = "token"
    /\ BotBecomes([bot EXCEPT !.update = afterToken(@, token, localBotId)])

\* AppStudio.init settles.
InitReturn(completed) ==
    /\ bot.update.st = "init"
    /\ BotBecomes([bot EXCEPT !.update = afterInit(@, completed)])

\* AppStudio.updateMessageEndpoint settles.
UpdateReturn(completed) ==
    /\ bot.update.st = "update"
    /\ BotBecomes([bot EXCEPT !.update = afterUpdateMessageEndpoint(@, completed)])

\* The timer of the gap fires.
GapElapsed ==
    /\ bot.update.st = "gap"
    /\ BotBecomes([bot EXCEPT !.update = afterGap(@)])

\* A promise updateMessageEndpointOnAppStudio awaits settles.
UpdateProgress ==
    \/ \E t, i \in BOOLEAN : TokenReturn(t, i)
    \/ \E c \in BOOLEAN : InitReturn(c)
    \/ \E c \in BOOLEAN : UpdateReturn(c)
    \/ GapElapsed

InitBot ==
    /\ CredentialsIdle
    /\ ParserIdle
    /\ RunIdle
    /\ TasksIdle
    /\ EnvIdle
    /\ ProxyIdle
    /\ bot \in {IdleBot(w) : w \in WayToRegisterBot}

NextBot ==
    \/ ProvisionCall
    \/ \E c \in BOOLEAN : RegistrationReturn(c)
    \/ \E c \in BOOLEAN : WebAppReturn(c)
    \/ \E d \in BOOLEAN : PreDeployCall(d)
    \/ UpdateCall
    \/ UpdateProgress

\* Every promise the update awaits settles: requests resolve or reject, the
\* timer fires.
SpecBot == InitBot /\ [][NextBot]_vars /\ WF_vars(UpdateProgress)

----------------------------------------------------------------------------
(* Vocabulary of the properties *)

Finished(c) == calls[c].st \in {"returned", "thrown"}

\* The scopes argument asks for no scope: a string of nothing but spaces, or an
\* array of nothing but empty strings.
NoScopeRequested(scopes) ==
    \/ scopes.type = "string" /\ \A i \in 1..Len(scopes.val) : scopes.val[i] = " "
    \/ scopes.type = "array" /\ \A i \in 1..Len(scopes.val) : scopes.val[i] = EmptyStr

\* The scopes argument is a string or an array and asks for some scope.
ScopeRequested(scopes) ==
    scopes.type \in {"string", "array"} /\ ~NoScopeRequested(scopes)

\* The exp claim of the token the credential was constructed with, in seconds.
HeldExpSec == jwtDecode(cred.arg)[1].exp

\* The part of a message after its first word.
Rest(message) == SubSeq(message, 2, Len(message))

----------------------------------------------------------------------------
(* Properties of OnBehalfOfUserCredential, checked under Spec *)

\* C1: a getToken whose scopes ask for nothing (empty string, spaces only,
\* empty array, array of empty strings), made while the clock's seconds do not
\* exceed the SSO token's expiresOnTimestamp, returns the SSO token the credential was constructed with, string
\* and expiry unchanged, and sends nothing to the identity provider.
C1_EmptyScopesReturnSsoToken ==
    \A c \in CallIds :
        (/\ calls[c].st # "idle"
         /\ NoScopeRequested(calls[c].scopes)
         /\ calls[c].at \div MsPerSec <= HeldExpSec)
        => /\ calls[c].st = "returned"
           /\ calls[c].result = Some(AccessToken(cred.arg, HeldExpSec))
           /\ calls[c].requests = 0
           /\ calls[c].request = NoRequest

\* C1 witness: getToken([""]) made in the very second of expiry has returned
\* the SSO token.
C1_Witness ==
    \E c \in CallIds :
        /\ calls[c].st = "returned"
        /\ calls[c].scopes = [type |-> "array", val |-> <<EmptyStr>>]
        /\ calls[c].at \div MsPerSec = HeldExpSec
        /\ calls[c].result[1].token = "T1"

\* C2 as stated: a getToken with string or array scopes, asking for scopes or
\* not, made when the clock's seconds exceed the SSO token's
\* expiresOnTimestamp, never returns a token.
C2_ExpiredSsoNeverReturnsToken ==
    \A c \in CallIds :
        (/\ calls[c].scopes.type \in {"string", "array"}
         /\ calls[c].at \div MsPerSec > HeldExpSec)
        => calls[c].st # "returned"

\* C2 amended: with the SSO token expired, a getToken asking for no scope
\* fails with TokenExpiredError without a provider request; one asking for
\* scopes is sent to the provider all the same, with the SSO token as the
\* assertion, and fails with TokenExpiredError exactly when the provider throws
\* an error that is not interaction-required and whose message has
\* AADSTS500133.
C2_ExpiredSsoAmended ==
    \A c \in CallIds :
        (/\ calls[c].st # "idle"
         /\ calls[c].scopes.type \in {"string", "array"}
         /\ calls[c].at \div MsPerSec > HeldExpSec)
        => /\ NoScopeRequested(calls[c].scopes)
              => /\ calls[c].st = "thrown"
                 /\ calls[c].error.code = "TokenExpiredError"
                 /\ calls[c].requests = 0
           /\ ScopeRequested(calls[c].scopes)
              => /\ calls[c].requests = 1
                 /\ calls[c].request.oboAssertion = cred.arg
                 /\ Finished(c) =>
                      ((calls[c].st = "thrown" /\ calls[c].error.code = "TokenExpiredError")
                       <=> (/\ calls[c].response.kind = "throw"
                            /\ calls[c].response.name # "InteractionRequiredAuthError"
                            /\ calls[c].response.errorMessage # None
                            /\ Contains(calls[c].response.errorMessage[1], "AADSTS500133:")))

\* C2 witness: both cases have happened with the SSO token expired: a
\* scope-less call has failed with TokenExpiredError, and a scoped call has
\* returned the provider's token.
C2_Witness ==
    /\ \E c \in CallIds :
        /\ calls[c].st = "thrown"
        /\ NoScopeRequested(calls[c].scopes)
        /\ calls[c].at \div MsPerSec > HeldExpSec
        /\ calls[c].error.code = "TokenExpiredError"
    /\ \E c \in CallIds :
        /\ calls[c].st = "returned"
        /\ ScopeRequested(calls[c].scopes)
        /\ calls[c].at \div MsPerSec > HeldExpSec

\* C3 as stated: two finished getToken calls with the same scopes argument,
\* asking for scopes, have returned the same token string and between them
\* sent one exchange to the provider.
C3_SecondCallFromCache ==
    \A c, d \in CallIds :
        (/\ c < d
         /\ calls[c].st = "returned" /\ calls[d].st = "returned"
         /\ ScopeRequested(calls[c].scopes)
         /\ calls[c].scopes = calls[d].scopes)
        => /\ calls[c].result[1].token = calls[d].result[1].token
           /\ calls[c].requests + calls[d].requests = 1
           /\ provider = 1

\* C4: when acquireTokenOnBehalfOf throws, getToken throws one ErrorWithCode:
\* UiRequiredError for an InteractionRequiredAuthError whatever its message;
\* otherwise TokenExpiredError for a message with AADSTS500133; otherwise
\* ServiceError, whose message ends in the provider's message; and no token is
\* returned.
C4_ProviderRejectionMapped ==
    \A c \in CallIds :
        calls[c].response.kind = "throw"
        => LET err == calls[c].response
               e == calls[c].error
           IN /\ calls[c].st = "thrown"
              /\ calls[c].result = None
              /\ e.kind = "ErrorWithCode"
              /\ e.code =
                    IF err.name = "InteractionRequiredAuthError" THEN "UiRequiredError"
                    ELSE IF err.errorMessage # None
                            /\ Contains(err.errorMessage[1], "AADSTS500133:")
                         THEN "TokenExpiredError"
                         ELSE "ServiceError"
              /\ (e.code = "ServiceError" /\ err.errorMessage # None)
                    => Rest(e.message) = err.errorMessage[1]

\* C4 witness: an InteractionRequiredAuthError whose message has AADSTS500133
\* was reported as UiRequiredError, and a plain rejection as ServiceError.
C4_Witness ==
    /\ \E c \in CallIds :
        /\ calls[c].response.kind = "throw"
        /\ calls[c].response.name = "InteractionRequiredAuthError"
        /\ calls[c].response.errorMessage # None
        /\ Contains(calls[c].response.errorMessage[1], "AADSTS500133:")
        /\ calls[c].error.code = "UiRequiredError"
    /\ \E c \in CallIds :
        /\ calls[c].response.kind = "throw"
        /\ calls[c].error.code = "ServiceError"

\* C5: once the constructor has run, it has failed with InvalidConfiguration
\* exactly when one of clientId, authorityHost, clientSecret, tenantId is not
\* set; then the SSO token was not parsed and the message names the values
\* that are not set, each once, and no other; and no getToken fails with
\* InvalidConfiguration.
C5_InvalidConfigurationAtConstruction ==
    LET missing == {f \in DOMAIN config : config[f] # "set"}
        named == SubSeq(cred.error.message, 2, Len(cred.error.message) - 1)
    IN /\ cred.state # "none"
          => /\ (cred.state = "failed" /\ cred.error.code = "InvalidConfiguration")
                    <=> missing # {}
             /\ missing # {}
                    => /\ ~cred.parsed
                       /\ cred.ssoToken = None
                       /\ {named[i] : i \in 1..Len(named)} = missing
                       /\ Len(named) = Cardinality(missing)
       /\ \A c \in CallIds : calls[c].error.code # "InvalidConfiguration"

\* C5 witness: with only tenantId not set and a string that is no JWT, the
\* constructor failed with InvalidConfiguration.
C5_Witness ==
    /\ cred.state = "failed"
    /\ cred.arg = "invalid-sso-token"
    /\ {f \in DOMAIN config : config[f] # "set"} = {"tenantId"}
    /\ cred.error.code = "InvalidConfiguration"

\* C6: when acquireTokenOnBehalfOf resolves to null, getToken throws an
\* InternalError saying the access token is null, and returns no token.
C6_NullResultIsInternalError ==
    \A c \in CallIds :
        calls[c].response.kind = "null"
        => /\ calls[c].st = "thrown"
           /\ calls[c].result = None
           /\ calls[c].error.kind = "ErrorWithCode"
           /\ calls[c].error.code = "InternalError"
           /\ Contains(calls[c].error.message, "Access token is null")

\* C6 witness: a provider answer of null has been turned into an error.
C6_Witness ==
    \E c \in CallIds :
        /\ calls[c].response.kind = "null"
        /\ calls[c].st = "thrown"
        /\ calls[c].error.code = "InternalError"

\* C7 as stated: the token of a successful exchange carries the provider's
\* expiry in epoch seconds, the unit of the SSO token's expiresOnTimestamp: an
\* expiry 3600 s after second s is s + 3600.
C7_ExpiresOnTimestampInSeconds ==
    \A c \in CallIds :
        (calls[c].st = "returned" /\ calls[c].response.kind = "result")
        => /\ calls[c].result[1].token = calls[c].response.accessToken
           /\ calls[c].result[1].expiresOnTimestamp
                = getTime(calls[c].response.expiresOn[1]) \div MsPerSec

\* C8 as stated: whatever the constructor or a getToken throws is an
\* ErrorWithCode whose code is one of the taxonomy.
C8_EveryFailureTyped ==
    /\ cred.state = "failed"
        => cred.error.kind = "ErrorWithCode" /\ cred.error.code \in ErrorCodes
    /\ \A c \in CallIds :
        calls[c].st = "thrown"
        => calls[c].error.kind = "ErrorWithCode" /\ calls[c].error.code \in ErrorCodes

\* C19: no getToken invocation sends more than one request to the identity
\* provider, the requests sent are those of the invocations, and an
\* invocation whose request was rejected or answered with null has thrown
\* with that one request sent and is not waiting for another answer.
C19_NoAutomaticRetry ==
    /\ \A c \in CallIds :
        /\ calls[c].requests <= 1
        /\ calls[c].response.kind \in {"throw", "null"}
            => /\ calls[c].st = "thrown"
               /\ calls[c].requests = 1
    /\ provider = Cardinality({c \in CallIds : calls[c].requests >= 1})
    /\ provider <= Cardinality({c \in CallIds : calls[c].st # "idle"})

\* C19 witness: one invocation threw after the provider rejected its request
\* and another after the provider answered null; two requests were sent.
C19_Witness ==
    /\ \E c \in CallIds : calls[c].st = "thrown" /\ calls[c].response.kind = "throw"
    /\ \E c \in CallIds : calls[c].st = "thrown" /\ calls[c].response.kind = "null"
    /\ provider = 2

\* Invocation c is made in this step, asking for scopes, while invocation d
\* waits for the provider's answer to a request for the same scopes.
ConcurrentSameRequest(c, d) ==
    /\ c # d
    /\ calls[c].st = "idle"
    /\ calls'[c].st # "idle"
    /\ ScopeRequested(calls'[c].scopes)
    /\ calls[d].st = "awaiting"
    /\ scopesArray(calls[d].scopes) = scopesArray(calls'[c].scopes)

\* C20: a getToken made while another one waits for the provider's answer to
\* a request for the same scopes sends a request of its own: both are then
\* outstanding, and two requests have been counted.
C20_InFlightNotDeduplicated ==
    [][ \A c, d \in CallIds :
            ConcurrentSameRequest(c, d)
            => /\ calls'[c].st = "awaiting"
               /\ calls'[c].requests = 1
               /\ calls'[d].st = "awaiting"
               /\ provider' = provider + 1 ]_vars

\* C20 witness: two invocations wait for the provider at once, each with its
\* own request for the same scopes, and nothing has been answered yet.
C20_Witness ==
    \E c, d \in CallIds :
        /\ c # d
        /\ calls[c].st = "awaiting" /\ calls[d].st = "awaiting"
        /\ calls[c].request = calls[d].request
        /\ calls[c].requests = 1 /\ calls[d].requests = 1
        /\ provider = 2

\* C22: whatever getToken invocations were made and however they ended, a
\* constructed credential holds the token string it was constructed with and
\* the exp claim of that token as expiresOnTimestamp, and every exchange sent
\* carries that token string as oboAssertion.
C22_SsoTokenImmutable ==
    cred.state = "constructed"
    => /\ cred.ssoToken # None
       /\ cred.ssoToken[1].token = cred.arg
       /\ cred.ssoToken[1].expiresOnTimestamp = HeldExpSec
       /\ \A c \in CallIds :
            calls[c].requests >= 1 => calls[c].request.oboAssertion = cred.arg

\* C22 witness: one getToken has returned an exchanged token and another has
\* thrown after its exchange; both exchanges carried the token the credential
\* still holds.
C22_Witness ==
    /\ cred.state = "constructed"
    /\ cred.ssoToken = Some(AccessToken("T1", SsoExpSec))
    /\ \E c, d \in CallIds :
        /\ calls[c].st = "returned" /\ calls[c].requests = 1
        /\ calls[d].st = "thrown" /\ calls[d].requests = 1
        /\ calls[c].request.oboAssertion = "T1"
        /\ calls[d].request.oboAssertion = "T1"

----------------------------------------------------------------------------
(* Properties of the token parsers, checked under SpecParser *)

\* The claims of the token handed to the parsers; the token is a JWT.
IsJwt == accessToken.payload # None

Claims == accessToken.payload[1]

\* C15: the user information read from a token of version 1.0 has the upn
\* claim as preferredUserName, that read from a token of version 2.0 has the
\* preferred_username claim; both have the name claim as displayName and the
\* oid claim as objectId.
C15_UserNameByTokenVersion ==
    (userInfo.st # "none" /\ IsJwt /\ Claims.ver \in {"1.0", "2.0"})
    => /\ userInfo.st = "returned"
       /\ userInfo.info[1].displayName = Claims.name
       /\ userInfo.info[1].objectId = Claims.oid
       /\ Claims.ver = "1.0" => userInfo.info[1].preferredUserName = Claims.upn
       /\ Claims.ver = "2.0"
            => userInfo.info[1].preferredUserName = Claims.preferred_username

\* C15 witness: a version 2.0 token that carries both claims was read, and
\* the user name is the preferred_username claim, not the upn claim.
C15_Witness ==
    /\ IsJwt
    /\ Claims.ver = "2.0"
    /\ Claims.upn = "fake-upn"
    /\ Claims.preferred_username = "fake-preferred_username"
    /\ userInfo.st = "returned"
    /\ userInfo.info[1] = UserInfo("fake-name", "fake-oid", "fake-preferred_username")

\* C16 as stated: parseToken of a token whose ver claim is neither "1.0" nor
\* "2.0", or is missing, fails with an UnsupportedTokenVersion error and gives
\* no identity.
C16_UnsupportedVersionRejected ==
    (tokenInfo.st # "none" /\ IsJwt /\ Claims.ver \notin {"1.0", "2.0"})
    => /\ tokenInfo.st = "thrown"
       /\ tokenInfo.info = None
       /\ tokenInfo.error.kind = "UnsupportedTokenVersion"

\* The authentication-context class claim of the token's version.
AuthContextClass == IF Claims.ver = "1.0" THEN Claims.appidacr ELSE Claims.azpacr

\* C17: parseToken of a token of version 1.0 or 2.0 returns an identity; it
\* is tagged User exactly when the appidacr claim (1.0) or the azpacr claim
\* (2.0) is "0", and ServicePrincipal for any other value and when the claim
\* is missing.
C17_UserTypeByAuthContextClass ==
    (tokenInfo.st # "none" /\ IsJwt /\ Claims.ver \in {"1.0", "2.0"})
    => /\ tokenInfo.st = "returned"
       /\ tokenInfo.info[1].userType \in UserType
       /\ tokenInfo.info[1].userType = "User" <=> AuthContextClass = "0"
       /\ tokenInfo.info[1].userType = "ServicePrincipal" <=> AuthContextClass # "0"

\* C17 witness: a version 2.0 token without azpacr, whose appidacr is "0",
\* was parsed and tagged ServicePrincipal.
C17_Witness ==
    /\ IsJwt
    /\ Claims.ver = "2.0"
    /\ Claims.azpacr = Undefined
    /\ Claims.appidacr = "0"
    /\ tokenInfo.st = "returned"
    /\ tokenInfo.info[1].userType = "ServicePrincipal"

----------------------------------------------------------------------------
(* Properties of runWithErrorCatchAndThrow, checked under SpecRun *)

RunFinished == run.st \in {"returned", "thrown"}

\* C18: when fn returns or resolves, runWithErrorCatchAndThrow returns that
\* value; when fn throws or rejects with a UserError or a SystemError, that
\* error is thrown; when fn throws or rejects with another error, the supplied
\* error is thrown.
C18_RunWithErrorCatchAndThrow ==
    RunFinished
    => /\ run.fn.mode \in {"return", "resolve"}
            => /\ run.st = "returned"
               /\ run.result = Some(run.fn.value)
               /\ run.thrown = None
       /\ (run.fn.mode \in {"throw", "reject"}
                /\ run.fn.error.class \in {"UserError", "SystemError"})
            => /\ run.st = "thrown"
               /\ run.thrown = Some(run.fn.error)
               /\ run.result = None
       /\ (run.fn.mode \in {"throw", "reject"}
                /\ run.fn.error.class \notin {"UserError", "SystemError"})
            => /\ run.st = "thrown"
               /\ run.thrown = Some(run.error)
               /\ run.result = None

\* C18 witness: fn rejected with a UserError while a FunctionPluginError was
\* supplied, and the UserError is what was thrown.
C18_Witness ==
    /\ run.st = "thrown"
    /\ run.fn.mode = "reject"
    /\ run.fn.error = FxError("UserError", "ut-name", "ut-msg")
    /\ run.error = FunctionPluginError("System", "ut-code", "ut-msg")
    /\ run.thrown = Some(run.fn.error)

----------------------------------------------------------------------------
(* Properties of TeamsUserCredential, checked under SpecBroker *)

\* Five minutes, in milliseconds.
FiveMinutesMs == 5 * 60 * 1000

\* Invocation c of the broker's getToken is made in this step, asking for
\* scopes, and the cache holds tok under the key of the request.
BrokerLookup(c, tok) ==
    /\ bcalls[c].st = "idle"
    /\ bcalls'[c].st # "idle"
    /\ scopeStr(bcalls'[c].scopes) # EmptyStr
    /\ cache[KeyOf(bcalls'[c].scopes)] = Some(tok)

TokensSeen == {cache[k][1] : k \in {x \in CacheKeys : cache[x] # None}}

\* C9: for every token in the cache, isAccessTokenNearExpired is true exactly
\* when the token expires five minutes from now or sooner (already expired
\* included); and a getToken that finds such a token under its key does not
\* return it but sends a request to the authentication endpoint.
C9_NearExpiredTreatedAsAbsent ==
    [][ /\ \A tok \in TokensSeen :
            isAccessTokenNearExpired(tok.expiresOnTimestamp, now)
                <=> (tok.expiresOnTimestamp - now <= FiveMinutesMs)
        /\ \A c \in BrokerCallIds : \A tok \in TokensSeen :
            (BrokerLookup(c, tok) /\ tok.expiresOnTimestamp - now <= FiveMinutesMs)
            => /\ bcalls'[c].st = "awaiting"
               /\ bcalls'[c].result = None
               /\ remote' = remote + 1 ]_vars

\* C9 witness: a getToken waits for the authentication endpoint although it
\* found a token in the cache, one with four minutes left.
C9_Witness ==
    \E c \in BrokerCallIds :
        /\ bcalls[c].st = "awaiting"
        /\ bcalls[c].cachedToken # None
        /\ bcalls[c].cachedToken[1].expiresOnTimestamp - now = 4 * 60 * 1000

\* C10: a getToken asking for scopes that finds under its key a token with
\* more than five minutes left returns that token and sends nothing to the
\* authentication endpoint.
C10_CacheHitNoRequest ==
    [][ \A c \in BrokerCallIds : \A tok \in TokensSeen :
            (BrokerLookup(c, tok) /\ tok.expiresOnTimestamp - now > FiveMinutesMs)
            => /\ bcalls'[c].st = "returned"
               /\ bcalls'[c].result = Some(tok)
               /\ bcalls'[c].requests = 0
               /\ remote' = remote ]_vars

\* C10 witness: a getToken has returned the token login put in the cache,
\* and no request was ever sent to the authentication endpoint.
C10_Witness ==
    \E c \in BrokerCallIds :
        /\ bcalls[c].st = "returned"
        /\ bcalls[c].result[1].token = "L1"
        /\ bcalls[c].requests = 0
        /\ remote = 0

\* Invocation c of the broker's getToken is made in this step, asking for
\* scopes, and the cache holds nothing under the key of the request, or a
\* token with five minutes left or less.
BrokerMiss(c) ==
    /\ bcalls[c].st = "idle"
    /\ bcalls'[c].st # "idle"
    /\ scopeStr(bcalls'[c].scopes) # EmptyStr
    /\ LET held == cache[KeyOf(bcalls'[c].scopes)]
       IN held = None \/ held[1].expiresOnTimestamp - now <= FiveMinutesMs

\* The tokens the authentication endpoint may answer with now.
EndpointTokens == {o.token : o \in {x \in RemoteOutcomes(now) : x.kind = "token"}}

\* C11: a getToken that misses the cache, or finds a near-expired token,
\* sends one request to the authentication endpoint and never a second one;
\* when the endpoint answers with a token, that token is stored in the cache
\* under the key of the request and is what getToken returns.
C11_MissSendsOneRequestAndCaches ==
    [][ \A c \in BrokerCallIds :
          /\ BrokerMiss(c)
                => /\ bcalls'[c].st = "awaiting"
                   /\ bcalls'[c].requests = 1
                   /\ remote' = remote + 1
          /\ bcalls[c].st = "awaiting"
                => /\ bcalls'[c].requests = 1
                   /\ bcalls'[c].st # "awaiting" => remote' = remote
          /\ (bcalls[c].st = "awaiting" /\ bcalls'[c].response = "token")
                => /\ bcalls'[c].st = "returned"
                   /\ bcalls'[c].result # None
                   /\ bcalls'[c].result[1] \in EndpointTokens
                   /\ cache'[KeyOf(bcalls[c].scopes)] = bcalls'[c].result ]_vars

\* C11 witness: a getToken has returned the token the endpoint answered
\* with, after one request, and the cache holds that token under the key of
\* the request.
C11_Witness ==
    \E c \in BrokerCallIds :
        /\ bcalls[c].st = "returned"
        /\ bcalls[c].requests = 1
        /\ bcalls[c].response = "token"
        /\ bcalls[c].result[1].token = "R1"
        /\ cache[KeyOf(bcalls[c].scopes)] = bcalls[c].result

\* C12: a getToken whose request to the authentication endpoint failed has
\* thrown an ErrorWithCode with code UiRequiredError and returned no token.
C12_RemoteFailureIsUiRequired ==
    \A c \in BrokerCallIds :
        bcalls[c].response = "failure"
        => /\ bcalls[c].st = "thrown"
           /\ bcalls[c].error.kind = "ErrorWithCode"
           /\ bcalls[c].error.code = "UiRequiredError"
           /\ bcalls[c].result = None

\* C12 witness: with nothing in the cache (nobody has logged in), a getToken
\* sent its request, the request failed and getToken threw.
C12_Witness ==
    \E c \in BrokerCallIds :
        /\ bcalls[c].response = "failure"
        /\ bcalls[c].st = "thrown"
        /\ bcalls[c].requests = 1
        /\ cache[KeyOf(bcalls[c].scopes)] = None

\* Tokens to store: the one of the cache test, which expires in ten minutes,
\* and one that expires now.
CacheTokens ==
    { AccessToken("fake_access_token", now + 10 * 60 * 1000),
      AccessToken("other_access_token", now) }

KeyInputs ==
    [ userId : {BrokerUser.userId, "fake_user"},
      clientId : {BrokerUser.clientId, "other_client_id"},
      tenantId : {BrokerUser.tenantId, "fake_tenant_id"},
      scopes : BrokerScopesInputs ]

\* The derivations the getToken invocations made so far have asked for.
KeysAskedFor ==
    { [userId |-> BrokerUser.userId, clientId |-> BrokerUser.clientId,
       tenantId |-> BrokerUser.tenantId, scopes |-> bcalls[c].scopes] :
        c \in {d \in BrokerCallIds : bcalls[d].st # "idle"} }

KeyFor(x) == getAccessTokenCacheKey(x.userId, x.clientId, x.tenantId, scopeStr(x.scopes))

\* Two derivations give the same key exactly when user, application and
\* tenant are the same and the scopes name the same scopes in the same order.
SameKeyIffSameRequest(x, y) ==
    KeyFor(x) = KeyFor(y)
    <=> /\ x.userId = y.userId
        /\ x.clientId = y.clientId
        /\ x.tenantId = y.tenantId
        /\ scopesArray(x.scopes) = scopesArray(y.scopes)

KeyInputsCollisionFree == \A x, y \in KeyInputs : SameKeyIffSameRequest(x, y)

ResponseRacesWith(c, d) ==
    /\ c # d
    /\ bcalls[c].st = "awaiting"
    /\ bcalls'[c].response = "token"
    /\ KeyOf(bcalls[c].scopes) = KeyOf(bcalls[d].scopes)
    /\ \/ bcalls[d].st = "awaiting"
       \/ bcalls[d].response = "token"

\* C21: of two requests for one key, the one answered last leaves its token
\* in the cache: an answer with a token replaces the entry whatever holds it,
\* the token of a request made later included.
C21_LastResponseWins ==
    [][ \A c, d \in BrokerCallIds :
            ResponseRacesWith(c, d)
            => /\ cache'[KeyOf(bcalls[c].scopes)] = bcalls'[c].result
               /\ bcalls'[d] = bcalls[d] ]_vars

\* C21 witness: two requests for one key were outstanding together; the
\* second was answered first, the first later, and the cache holds the token
\* of the first and no longer the token the second returned.
C21_Witness ==
    /\ remote = 2
    /\ bcalls[1].response = "token" /\ bcalls[2].response = "token"
    /\ bcalls[1].cachedToken = None /\ bcalls[2].cachedToken = None
    /\ KeyOf(bcalls[1].scopes) = KeyOf(bcalls[2].scopes)
    /\ bcalls[1].result[1].expiresOnTimestamp > bcalls[2].result[1].expiresOnTimestamp
    /\ cache[KeyOf(bcalls[1].scopes)] = bcalls[1].result
    /\ cache[KeyOf(bcalls[1].scopes)] # bcalls[2].result

----------------------------------------------------------------------------
(* Properties of the task lock, checked under SpecTasks *)

\* Invocation t is between its lock and its unlock.
InBody(t) == tasks[t].st \in {"questions", "traverse", "running"}

\* Invocation t is runCommand(Stage.create).
IsCreate(t) == tasks[t].kind = "command" /\ tasks[t].name = "create"

\* Invocation t added its entry to runningTasks.
Locked(t) == Len(tasks[t].log) > 0 /\ tasks[t].log[1] = "add"

\* Invocation t found the lock held and returned the error.
Rejected(t) ==
    /\ tasks[t].st = "returned"
    /\ tasks[t].result = Err(ConcurrentTriggerTask)

\* C23: while runningTasks is non-empty, a runCommand for a stage other than
\* create and a runUserTask for any function end with the
\* ConcurrentTriggerTask UserError: from the call to the return the
\* invocation calls no core operation (its log stays empty) and
\* runningTasks stays as it was.
C23_BusyLockRejects ==
    [][ \A t \in TaskIds :
          ( \/ /\ tasks[t].st = "idle"
               /\ tasks'[t].st # "idle"
               /\ runningTasks # {}
               /\ ~(tasks'[t].kind = "command" /\ tasks'[t].name = "create")
            \/ /\ tasks[t].st = "rejected"
               /\ tasks'[t] # tasks[t] )
          => /\ tasks'[t].st \in {"rejected", "returned"}
             /\ tasks'[t].result = Err(ConcurrentTriggerTask)
             /\ tasks'[t].result.error.class = "UserError"
             /\ tasks'[t].log = <<>>
             /\ runningTasks' = runningTasks ]_vars

\* A command and a user task have both been turned away by a task that is
\* still in its body.
C23_Witness ==
    \E t, u, v \in TaskIds :
        /\ InBody(t)
        /\ runningTasks = {tasks[t].name}
        /\ Rejected(u) /\ tasks[u].kind = "command"
        /\ Rejected(v) /\ tasks[v].kind = "userTask"

C25_BodiesExclusive ==
    \A t, u \in TaskIds :
        InBody(t) /\ ~IsCreate(t) /\ u # t => ~InBody(u)

\* C25 as amended: two invocations are between lock and unlock at the same
\* time only when one of them is a create; stages other than create and user
\* tasks exclude one another, and each holds its entry while in its body.
C25_NonCreateBodiesExclusive ==
    /\ \A t, u \in TaskIds :
          InBody(t) /\ InBody(u) /\ u # t => IsCreate(t) \/ IsCreate(u)
    /\ \A t \in TaskIds :
          InBody(t) /\ ~IsCreate(t) => tasks[t].name \in runningTasks

\* A provision is in its body, a create runs beside it, and a user task has
\* been turned away.
C25_Witness ==
    \E t, u, v \in TaskIds :
        /\ InBody(t) /\ ~IsCreate(t)
        /\ InBody(u) /\ IsCreate(u)
        /\ Rejected(v) /\ tasks[v].kind = "userTask"

----------------------------------------------------------------------------
(* Properties of the environments of CoreImpl, checked under SpecEnv *)

\* Every environment other than name is as it was.
OthersKept(name) ==
    /\ DOMAIN configs' \ {name} = DOMAIN configs \ {name}
    /\ \A m \in DOMAIN configs \ {name} : configs'[m] = configs[m]

\* C26: createEnv of an existing name returns EnvAlreadyExist, removeEnv and
\* switchEnv of a name that does not exist return EnvNotExist, and then the
\* environments and the active environment are as before; createEnv of a new
\* name adds that name with an empty config and nothing else, removeEnv of an
\* existing name deletes that name and nothing else, switchEnv to an
\* existing name changes nothing but the active environment.
C26_EnvOperations ==
    [][ LET c == envCall'
            had == c.arg \in DOMAIN configs
        IN  /\ c.op = "createEnv" /\ had
                => /\ ~c.isOk /\ c.error.name = "EnvAlreadyExist"
                   /\ configs' = configs /\ env' = env
            /\ c.op = "createEnv" /\ ~had
                => /\ c.isOk
                   /\ DOMAIN configs' = DOMAIN configs \cup {c.arg}
                   /\ configs'[c.arg] = EmptyConfig
                   /\ OthersKept(c.arg) /\ env' = env
            /\ c.op \in {"removeEnv", "switchEnv"} /\ ~had
                => /\ ~c.isOk /\ c.error.name = "EnvNotExist"
                   /\ configs' = configs /\ env' = env
            /\ c.op = "removeEnv" /\ had
                => /\ c.isOk
                   /\ DOMAIN configs' = DOMAIN configs \ {c.arg}
                   /\ OthersKept(c.arg) /\ env' = env
            /\ c.op = "switchEnv" /\ had
                => /\ c.isOk /\ env' = c.arg /\ configs' = configs ]_envVars

\* removeEnv of a name that does not exist has just failed, beside an
\* environment the solution has written to, a created one, and an active
\* environment that was switched to.
C26_Witness ==
    /\ envCall.op = "removeEnv" /\ ~envCall.isOk
    /\ envCall.error = EnvNotExist(envCall.arg)
    /\ env # "default"
    /\ \E m \in DOMAIN configs : configs[m] = WrittenConfig
    /\ \E m \in DOMAIN configs : configs[m] = EmptyConfig

\* C27: the active environment names an environment present in the config
\* map, so solutionContext has a config for it.
C27_ActiveEnvPresent ==
    /\ env \in DOMAIN configs
    /\ solutionContext(configs, env) # None

----------------------------------------------------------------------------
(* Properties of CoreProxy.runWithErrorHandling, checked under SpecProxy *)

\* What runWithErrorHandling has called so far.
ProxyCalled == {proxy.log[i] : i \in 1..Len(proxy.log)}

ProxyFinished == proxy.st \in {"returned", "thrown"}

\* C28: with checkAndConfig = true, fn is called only after isSupported
\* answered true and readConfigs answered ok; on an unsupported project fn
\* is not called and the result is the operation's not-supported result;
\* after a read failure fn is not called; writeConfigs is the last call on
\* every path, also when fn throws; and runWithErrorHandling never throws:
\* when fn throws the result is an err.
C28_RunWithErrorHandling ==
    proxy.checkAndConfig
    => /\ "fn" \in ProxyCalled
          => /\ proxy.world.supported = "true" /\ proxy.world.read = "ok"
             /\ SubSeq(proxy.log, 1, 3) = <<"isSupported", "readConfigs", "fn">>
       /\ proxy.world.supported = "false"
          => /\ "fn" \notin ProxyCalled
             /\ proxy.st = "returned" => proxy.result = proxy.notSupportedRes
       /\ proxy.world.supported = "true" /\ proxy.world.read = "err"
          => "fn" \notin ProxyCalled
       /\ ProxyFinished => proxy.log[Len(proxy.log)] = "writeConfigs"
       /\ proxy.st # "thrown"
       /\ proxy.st = "returned" /\ "fn" \in ProxyCalled
            /\ proxy.world.fn \notin {"ok", "err"}
          => ~proxy.result.isOk

----------------------------------------------------------------------------
(* Properties of the bot plugin, checked under SpecBot *)

UpdateFinished == bot.update.st \in {"returned", "thrown"}

\* What holds of updateMessageEndpointOnAppStudio at every moment: at most
\* UPDATE_MESSAGE_ENDPOINT_TIMES attempts; a gap only after a failed attempt
\* that leaves attempts; after a success nothing more is tried; it has
\* returned after the first success with one gap per failure before it, or
\* after UPDATE_MESSAGE_ENDPOINT_TIMES failures with a gap between them and
\* none after the last; an exception leaves it only before the first
\* attempt.
UpdateBounded ==
    LET u == bot.update
    IN  /\ u.attempts <= UPDATE_MESSAGE_ENDPOINT_TIMES
        /\ u.waits <= u.attempts
        /\ u.waits < UPDATE_MESSAGE_ENDPOINT_TIMES
        /\ u.succeeded => u.st = "returned" /\ u.waits = u.attempts - 1
        /\ u.st = "returned" /\ ~u.succeeded
             => /\ u.attempts = UPDATE_MESSAGE_ENDPOINT_TIMES
                /\ u.waits = UPDATE_MESSAGE_ENDPOINT_TIMES - 1
                /\ u.retries = 0
        /\ u.st = "thrown" => u.attempts = 0

\* C29: updateMessageEndpointOnAppStudio always terminates, with at most
\* UPDATE_MESSAGE_ENDPOINT_TIMES attempts, stopping at the first success,
\* waiting only while attempts remain, and returning normally after a
\* success and after the last failure alike.
C29_UpdateTerminates ==
    /\ []UpdateBounded
    /\ (bot.update.st # "idle") ~> UpdateFinished

\* The update has returned after every attempt failed.
C29_Witness ==
    /\ bot.update.st = "returned"
    /\ ~bot.update.succeeded
    /\ bot.update.attempts = UPDATE_MESSAGE_ENDPOINT_TIMES
    /\ bot.update.waits > 0

\* The last lifecycle call is a preDeploy that has ended.
PreDeployEnded ==
    bot.call.op = "preDeploy" /\ bot.call.st \in {"returned", "thrown"}

====
